---- MODULE Spec2Model ----
(***************************************************************************)
(* Fermentation controller: the control loop of app.py with its API        *)
(* handlers, and the components of pid_controller.py and profiles.py.      *)
(*                                                                         *)
(* Units.  Temperatures are integers in tenths of a degree Celsius         *)
(* (18.0 C is 180).  Times are integer seconds of the wall clock that      *)
(* time.time() and datetime.now() both read.  PID outputs and duty cycles  *)
(* are exact rationals [n, d] in percent, so that no float rounding is     *)
(* introduced by the model.  Python's None is the value None.              *)
(***************************************************************************)
EXTENDS Integers, Sequences, FiniteSets, TLC

VARIABLES
    clock,                          \* wall clock, seconds
    pc,                             \* position of the control thread in control_loop
    idx,                            \* loop variable i of the per-fermenter loop
    tick_count,                     \* iterations of `while True` started
    api_count,                      \* API requests served
    current_glycol,                 \* current_temperatures["glycol_bath"]
    current_fermenters,             \* current_temperatures["fermenters"]
    target_glycol,                  \* target_temperatures["glycol_bath"]
    target_fermenters,              \* target_temperatures["fermenters"]
    chiller_on,
    pump_on,
    solenoid_states,
    heater_states,
    fermenter_active_status,
    fermenter_profiles,
    fermenter_profile_start_times,
    fermenter_current_step,
    fermenter_profile_offsets,
    pid_outputs,
    control_mode,
    pid_controllers,
    duty_cycle_managers,
    chiller_controller,
    fermenter_heating_duty,
    fermenter_cooling_duty,
    active_targets,                 \* local list of control_loop
    cooling_duties,                 \* local list of control_loop
    call,                           \* the last direct call of a component (unit specifications)
    pt100_sensors,                  \* the Max31865Pi instances: their moving-average buffers
    request,                        \* the API request whose handler is part-way through
    PID_PARAMS                      \* the dict PID_PARAMS of app_config, which manage_config updates

vars ==
    << clock, pc, idx, tick_count, api_count, current_glycol, current_fermenters,
       target_glycol, target_fermenters, chiller_on, pump_on, solenoid_states,
       heater_states, fermenter_active_status, fermenter_profiles,
       fermenter_profile_start_times, fermenter_current_step,
       fermenter_profile_offsets, pid_outputs, control_mode, pid_controllers,
       duty_cycle_managers, chiller_controller, fermenter_heating_duty,
       fermenter_cooling_duty, active_targets, cooling_duties, call, pt100_sensors,
       request, PID_PARAMS >>

----------------------------------------------------------------------------
(* Bounds of the model *)

\* number of fermenters modelled (app_config.NUM_FERMENTERS is 3)
NumFermenters == 2
\* iterations of the control loop explored
MaxTicks == 2
\* API requests explored
MaxApi == 1
\* wall-clock time at which the process starts (time.time() is far above
\* the chiller dwell times)
BootTime == 1000
\* direct component calls explored by the unit specifications
MaxCalls == 3
\* seconds of wall-clock time explored by the unit specifications
UnitHorizon == 60
\* direct should_turn_on calls explored by the guard specification
MaxGuardCalls == 4
\* longest profile evaluated by the profile specification
MaxSteps == 3
\* elapsed times evaluated by the profile specification, in thirds of an hour
MaxElapsedSteps == 20

----------------------------------------------------------------------------
(* Program constants (app_config.py), temperatures in tenths of a degree *)

TEMP_HYSTERESIS == 5
GLYCOL_TEMP_HYSTERESIS == 10
GLYCOL_TARGET_OFFSET == 50
MIN_GLYCOL_TEMP == -50
READ_INTERVAL_SECONDS == 2
CHILLER_MIN_ON_TIME == 300
CHILLER_MIN_OFF_TIME == 180
DYNAMIC_GLYCOL_SETPOINT == TRUE
DEFAULT_TARGET_FERMENTER == 180
PID_Kp == 20
PID_Ki == [n |-> 1, d |-> 2]
PID_Kd == 5
PID_duty_cycle_seconds == 60
PID_min_output == -100
PID_max_output == 100

None == 0 - 1000000000

Fermenters == 0 .. (NumFermenters - 1)

----------------------------------------------------------------------------
(* Arithmetic helpers *)

Abs(x) == IF x < 0 THEN 0 - x ELSE x

Max2(a, b) == IF a >= b THEN a ELSE b

Min2(a, b) == IF a <= b THEN a ELSE b

RECURSIVE Gcd(_, _)
Gcd(a, b) == IF b = 0 THEN a ELSE Gcd(b, a % b)

\* the rational n/d (d > 0) in lowest terms
Rat(n, d) ==
    LET g == Gcd(Abs(n), d)
    IN  IF n = 0 THEN [n |-> 0, d |-> 1] ELSE [n |-> n \div g, d |-> d \div g]

RatLess(a, b) == a.n * b.d < b.n * a.d

RatZero == [n |-> 0, d |-> 1]

RatNeg(a) == [n |-> 0 - a.n, d |-> a.d]

\* min(s) and max(s) of a non-empty sequence of integers
SeqMin(s) == CHOOSE x \in {s[k] : k \in 1 .. Len(s)} : \A k \in 1 .. Len(s) : x <= s[k]

RatSeqMax(s) ==
    CHOOSE x \in {s[k] : k \in 1 .. Len(s)} : \A k \in 1 .. Len(s) : ~RatLess(x, s[k])

\* round(x, 1) cutting the digits after the first decimal
RoundTenth_floor(num, den) ==
    num \div den

\* round(x, 1) of the rational num/den tenths (den > 0): nearest tenth, ties to even
RoundTenth(num, den) ==
    LET q == num \div den
        r == num % den
    IN  IF 2 * r < den THEN q
        ELSE IF 2 * r > den THEN q + 1
        ELSE IF q % 2 = 0 THEN q ELSE q + 1

----------------------------------------------------------------------------
(* app.py: Max31865Pi.  The driver's temperatures are integers in            *)
(* thousandths of a degree; the average it returns is the exact rational.    *)

\* capacity of the moving-average buffer, collections.deque(maxlen=10)
HistoryMaxLen == 10

\* full scale of the 15-bit ratio: res = (raw_rtd / 32768.0) * ref_resistor
RtdFullScale == 32768

\* the None that get_reading returns in place of a temperature
NoTemperature == [n |-> None, d |-> 1]

\* Max31865Pi.__init__: resistances in ohm, the buffer empty
Max31865Pi(rtd_nominal, ref_resistor) ==
    [ rtd_nominal |-> rtd_nominal, ref_resistor |-> ref_resistor, history |-> << >> ]

\* math.sqrt to the integer below: the largest s in lo .. hi with s * s <= n
RECURSIVE IsqrtBetween(_, _, _)
IsqrtBetween(n, lo, hi) ==
    IF lo = hi THEN lo
    ELSE LET mid == (lo + hi + 1) \div 2
         IN  IF mid * mid <= n THEN IsqrtBetween(n, mid, hi)
             ELSE IsqrtBetween(n, lo, mid - 1)

Isqrt(n) == IsqrtBetween(n, 0, 46340)

RECURSIVE Pow10(_)
Pow10(k) == IF k = 0 THEN 1 ELSE 10 * Pow10(k - 1)

\* x * 10^k / d cut to an integer (x >= 0, d > 0), digit by digit
RECURSIVE DivDigits(_, _, _)
DivDigits(x, d, k) ==
    IF k = 0 THEN x \div d
    ELSE (x \div d) * Pow10(k) + DivDigits((x % d) * 10, d, k - 1)

\* (Z2 + Z3 * res) * 10^14 with A = 3.9083e-3, B = -5.775e-7:
\* Z2 = A*A - 4*B = 1758480889e-14, Z3 = 4*B / rtd_nominal,
\* res = raw_rtd * ref_resistor / 32768
Radicand(self, raw_rtd) ==
    LET k == (231000000 \div self.rtd_nominal) * self.ref_resistor
    IN  1758480889
            - ( (k \div RtdFullScale) * raw_rtd
                + ((k % RtdFullScale) * raw_rtd) \div RtdFullScale )

\* a straight line through 0 degrees at rtd_nominal, 0.385 ohm per degree
RtdTemperature_linear(self, raw_rtd) ==
    LET milliohm == (raw_rtd * self.ref_resistor * 125) \div 4096
    IN  ((milliohm - self.rtd_nominal * 1000) * 1000) \div 385

\* temp = (math.sqrt(Z2 + Z3 * res) + Z1) / Z4 in thousandths of a degree.
\* With s the integer square root of the radicand and rem what is left of it,
\* sqrt is (s + rem / 2s) * 10^-7, Z1 is -39083 * 10^-7 and Z4 -11.55 * 10^-7.
RtdTemperature(self, raw_rtd) ==
    LET radicand == Radicand(self, raw_rtd)
        s == Isqrt(radicand)
        rem == radicand - s * s
        x == (s - 39083) * 2 * s + rem
    IN  IF x <= 0 THEN DivDigits(0 - x, 2310 * s, 5)
        ELSE 0 - DivDigits(x, 2310 * s, 5)

RECURSIVE SeqSum(_)
SeqSum(s) == IF Len(s) = 0 THEN 0 ELSE Head(s) + SeqSum(Tail(s))

\* a buffer that keeps every sample
HistoryAppend_unbounded(history, temp) ==
    Append(history, temp)

\* self.history.append(temp) on a deque of maxlen 10: the oldest sample
\* leaves a full buffer
HistoryAppend(history, temp) ==
    IF Len(history) = HistoryMaxLen THEN Append(Tail(history), temp)
    ELSE Append(history, temp)

\* get_reading emptying the buffer when it reports a fault
get_reading_fault_clears(self, raw) ==
    LET has_fault == raw % 2
        raw_rtd == raw \div 2
        history == HistoryAppend(self.history, RtdTemperature(self, raw_rtd))
    IN  IF \/ has_fault # 0
           \/ raw_rtd * self.ref_resistor < 10 * RtdFullScale
           \/ raw_rtd * self.ref_resistor > 400 * RtdFullScale
        THEN [ sensor |-> [self EXCEPT !.history = << >>], temp |-> NoTemperature,
               status |-> "NOT CONNECTED" ]
        ELSE [ sensor |-> [self EXCEPT !.history = history],
               temp |-> Rat(SeqSum(history), Len(history)), status |-> "OK" ]

\* get_reading when _read_u16(0x01) returns raw: the sensor after the call,
\* the temperature and the status returned
get_reading(self, raw) ==
    LET has_fault == raw % 2
        raw_rtd == raw \div 2
        history == HistoryAppend(self.history, RtdTemperature(self, raw_rtd))
    IN  IF \/ has_fault # 0
           \/ raw_rtd * self.ref_resistor < 10 * RtdFullScale
           \/ raw_rtd * self.ref_resistor > 400 * RtdFullScale
        THEN [ sensor |-> self, temp |-> NoTemperature, status |-> "NOT CONNECTED" ]
        ELSE IF Radicand(self, raw_rtd) < 0
        THEN [ sensor |-> self, temp |-> NoTemperature, status |-> "MATH ERROR" ]
        ELSE [ sensor |-> [self EXCEPT !.history = history],
               temp |-> Rat(SeqSum(history), Len(history)), status |-> "OK" ]

----------------------------------------------------------------------------
(* pid_controller.py: PIDController *)

\* PIDController.__init__
PIDController(Kp, Ki, Kd) ==
    [ Kp |-> Kp, Ki |-> Ki, Kd |-> Kd,
      min_output |-> PID_min_output, max_output |-> PID_max_output,
      integral |-> 0, last_error |-> 0, last_time |-> None ]

\* PIDController.reset
PIDReset(self) ==
    [self EXCEPT !.integral = 0, !.last_error = 0, !.last_time = None]

\* dt of compute: 1 on the first call and whenever now - last_time <= 0
PIDDt(self, now) ==
    IF self.last_time = None THEN 1
    ELSE IF now - self.last_time <= 0 THEN 1 ELSE now - self.last_time

\* max_integral, in tenths of a degree-second
PIDMaxIntegral(self) ==
    IF self.Ki.n # 0
    THEN (10 * (self.max_output - self.min_output) * self.Ki.d) \div (2 * self.Ki.n)
    ELSE 10 * 1000

\* the integral accumulated without the anti-windup clamp
PIDIntegral_unclamped(self, setpoint, current_temp, now) ==
    self.integral + (setpoint - current_temp) * PIDDt(self, now)

\* self.integral after compute: accumulated error * dt, clamped
PIDIntegral(self, setpoint, current_temp, now) ==
    LET dt == PIDDt(self, now)
        error == setpoint - current_temp
        mi == PIDMaxIntegral(self)
    IN  Max2(0 - mi, Min2(mi, self.integral + error * dt))

\* the clamped output P + I + D of compute, a rational in percent
PIDOutput(self, setpoint, current_temp, now) ==
    LET dt == PIDDt(self, now)
        error == setpoint - current_temp
        integral == PIDIntegral(self, setpoint, current_temp, now)
        \* P = Kp*error/10, I = Ki*integral/10, D = Kd*(error - last_error)/(10*dt)
        den == 10 * self.Ki.d * dt
        num == self.Kp * error * self.Ki.d * dt
               + self.Ki.n * integral * dt
               + self.Kd * (error - self.last_error) * self.Ki.d
    IN  IF num > self.max_output * den THEN Rat(self.max_output, 1)
        ELSE IF num < self.min_output * den THEN Rat(self.min_output, 1)
        ELSE Rat(num, den)

\* the controller after compute
PIDCompute(self, setpoint, current_temp, now) ==
    [self EXCEPT !.integral = PIDIntegral(self, setpoint, current_temp, now),
                 !.last_error = setpoint - current_temp,
                 !.last_time = now]

----------------------------------------------------------------------------
(* pid_controller.py: DutyCycleManager *)

\* DutyCycleManager.__init__ at wall-clock time now
DutyCycleManager(cycle_seconds, now) ==
    [cycle_seconds |-> cycle_seconds, cycle_start |-> now]

\* should_be_on with the relay still on at elapsed = on_time
should_be_on_inclusive(self, duty_percent, now) ==
    IF duty_percent.n <= 0 THEN FALSE
    ELSE IF duty_percent.n >= 100 * duty_percent.d THEN TRUE
    ELSE LET elapsed == (now - self.cycle_start) % self.cycle_seconds
         IN  elapsed * 100 * duty_percent.d <= self.cycle_seconds * duty_percent.n

\* DutyCycleManager.should_be_on, duty_percent a rational
should_be_on(self, duty_percent, now) ==
    IF duty_percent.n <= 0 THEN FALSE
    ELSE IF duty_percent.n >= 100 * duty_percent.d THEN TRUE
    ELSE LET elapsed == (now - self.cycle_start) % self.cycle_seconds
         IN  elapsed * 100 * duty_percent.d < self.cycle_seconds * duty_percent.n

----------------------------------------------------------------------------
(* pid_controller.py: ChillerController *)

\* __init__ stamping last_state_change with the time of construction
ChillerController_stamped(min_on_time, min_off_time) ==
    [ min_on_time |-> min_on_time, min_off_time |-> min_off_time,
      is_on |-> FALSE, last_state_change |-> BootTime ]

\* ChillerController.__init__
ChillerController(min_on_time, min_off_time) ==
    [ min_on_time |-> min_on_time, min_off_time |-> min_off_time,
      is_on |-> FALSE, last_state_change |-> 0 ]

\* should_turn_on switching off as soon as the bath is cold enough, whatever
\* the time spent on
should_turn_on_no_min_on(self, current_temp, target_temp, hysteresis, now) ==
    LET time_in_state == now - self.last_state_change
        wants_on == current_temp > target_temp + hysteresis
        wants_off == current_temp < target_temp - hysteresis
    IN  IF self.is_on
        THEN IF wants_off
             THEN [self EXCEPT !.is_on = FALSE, !.last_state_change = now]
             ELSE self
        ELSE IF wants_on /\ time_in_state >= self.min_off_time
             THEN [self EXCEPT !.is_on = TRUE, !.last_state_change = now]
             ELSE self

\* should_turn_on switching only after more than the dwell time
should_turn_on_strict_dwell(self, current_temp, target_temp, hysteresis, now) ==
    LET time_in_state == now - self.last_state_change
        wants_on == current_temp > target_temp + hysteresis
        wants_off == current_temp < target_temp - hysteresis
    IN  IF self.is_on
        THEN IF wants_off /\ time_in_state > self.min_on_time
             THEN [self EXCEPT !.is_on = FALSE, !.last_state_change = now]
             ELSE self
        ELSE IF wants_on /\ time_in_state > self.min_off_time
             THEN [self EXCEPT !.is_on = TRUE, !.last_state_change = now]
             ELSE self

\* the controller after should_turn_on; the call returns its is_on
should_turn_on(self, current_temp, target_temp, hysteresis, now) ==
    LET time_in_state == now - self.last_state_change
        wants_on == current_temp > target_temp + hysteresis
        wants_off == current_temp < target_temp - hysteresis
    IN  IF self.is_on
        THEN IF wants_off /\ time_in_state >= self.min_on_time
             THEN [self EXCEPT !.is_on = FALSE, !.last_state_change = now]
             ELSE self
        ELSE IF wants_on /\ time_in_state >= self.min_off_time
             THEN [self EXCEPT !.is_on = TRUE, !.last_state_change = now]
             ELSE self

----------------------------------------------------------------------------
(* pid_controller.py: module functions *)

\* the magnitude of the output given to both duties
pid_output_to_duty_cycles_both(pid_output) ==
    << [n |-> Abs(pid_output.n), d |-> pid_output.d],
       [n |-> Abs(pid_output.n), d |-> pid_output.d] >>

\* pid_output_to_duty_cycles: <<heating_duty, cooling_duty>>
pid_output_to_duty_cycles(pid_output) ==
    IF pid_output.n > 0 THEN << pid_output, RatZero >>
    ELSE IF pid_output.n < 0 THEN << RatZero, RatNeg(pid_output) >>
    ELSE << RatZero, RatZero >>

\* calculate_dynamic_glycol_target with a demand of exactly 30 or 70 percent
\* taken as the lighter band
calculate_dynamic_glycol_target_le(duties, fermenter_targets, min_glycol_temp, base_offset) ==
    LET max_cooling_demand == RatSeqMax(duties)
    IN  IF Len(fermenter_targets) = 0 THEN None
        ELSE LET lowest_target == SeqMin(fermenter_targets)
                 target ==
                     IF max_cooling_demand.n = 0 THEN lowest_target + 50
                     ELSE IF ~RatLess(Rat(30, 1), max_cooling_demand) THEN lowest_target - 20
                     ELSE IF ~RatLess(Rat(70, 1), max_cooling_demand) THEN lowest_target - 40
                     ELSE lowest_target - base_offset
             IN  Max2(min_glycol_temp, target)

\* calculate_dynamic_glycol_target; the filter `cooling_duties[i] > 0 or True`
\* keeps every entry of fermenter_targets
calculate_dynamic_glycol_target(duties, fermenter_targets, min_glycol_temp, base_offset) ==
    LET max_cooling_demand == RatSeqMax(duties)
    IN  IF Len(fermenter_targets) = 0 THEN None
        ELSE LET lowest_target == SeqMin(fermenter_targets)
                 target ==
                     IF max_cooling_demand.n = 0 THEN lowest_target + 50
                     ELSE IF RatLess(max_cooling_demand, Rat(30, 1)) THEN lowest_target - 20
                     ELSE IF RatLess(max_cooling_demand, Rat(70, 1)) THEN lowest_target - 40
                     ELSE lowest_target - base_offset
             IN  Max2(min_glycol_temp, target)

----------------------------------------------------------------------------
(* profiles.py *)

\* A step is [target_temp, duration_hours, ramp_hours]; a profile is its
\* sequence of steps.  Profile ids are 1 .. Len(ProfileStore).

\* Pitch, Primary (72 h) and Crash (48 h after a 12 h ramp)
ExampleProfile ==
    << [target_temp |-> 180, duration_hours |-> 0, ramp_hours |-> 0],
       [target_temp |-> 180, duration_hours |-> 72, ramp_hours |-> 0],
       [target_temp |-> 20, duration_hours |-> 48, ramp_hours |-> 12] >>

\* a short schedule of the same shape: marker, hold, ramp and hold
ShortProfile ==
    << [target_temp |-> 180, duration_hours |-> 0, ramp_hours |-> 0],
       [target_temp |-> 180, duration_hours |-> 1, ramp_hours |-> 0],
       [target_temp |-> 160, duration_hours |-> 1, ramp_hours |-> 2] >>

\* a stored profile with a marker between two holds
MarkerProfile ==
    << [target_temp |-> 180, duration_hours |-> 1, ramp_hours |-> 0],
       [target_temp |-> 160, duration_hours |-> 0, ramp_hours |-> 0],
       [target_temp |-> 160, duration_hours |-> 1, ramp_hours |-> 0] >>

ProfileStore == << ShortProfile, MarkerProfile >>

ProfileIds == 1 .. Len(ProfileStore)

\* a profile_id that no stored profile has
UnknownProfileId == Len(ProfileStore) + 1

\* profile_id values of assignment requests
ProfileIdInputs == ProfileIds \cup {UnknownProfileId}

\* get_profile_by_id
get_profile_by_id(profile_id) ==
    IF profile_id \in ProfileIds THEN ProfileStore[profile_id] ELSE << >>

\* seconds in an hour: elapsed_hours = total_seconds() / 3600
SecondsPerHour == 3600

\* The loop of calculate_current_step from step i with cumulative_hours cum;
\* elapsed is in seconds (elapsed_hours * 3600), and so is the returned
\* time_remaining.  Result: <<step_index, target_temperature, time_remaining>>.
RECURSIVE StepLoop(_, _, _, _)
StepLoop(steps, elapsed, i, cum) ==
    IF i > Len(steps)
    THEN << Len(steps) - 1, steps[Len(steps)].target_temp, 0 >>
    ELSE LET step == steps[i]
             total_step_time == step.duration_hours + step.ramp_hours
             step_end_hours == cum + total_step_time
         IN  IF step.duration_hours = 0 /\ step.ramp_hours = 0
             THEN IF elapsed <= cum * SecondsPerHour
                  THEN << i - 1, step.target_temp, 0 >>
                  ELSE StepLoop(steps, elapsed, i + 1, cum)
             ELSE IF elapsed < step_end_hours * SecondsPerHour
                  THEN LET time_in_step == elapsed - cum * SecondsPerHour
                           time_remaining == step_end_hours * SecondsPerHour - elapsed
                           ramp == step.ramp_hours * SecondsPerHour
                           prev_temp == IF i > 1 THEN steps[i - 1].target_temp
                                        ELSE step.target_temp
                       IN  IF step.ramp_hours > 0 /\ time_in_step < ramp
                           THEN << i - 1,
                                   RoundTenth(prev_temp * ramp
                                              + (step.target_temp - prev_temp) * time_in_step,
                                              ramp),
                                   time_remaining >>
                           ELSE << i - 1, step.target_temp, time_remaining >>
                  ELSE StepLoop(steps, elapsed, i + 1, step_end_hours)

\* calculate_current_step with a step owning its end instant
\* (elapsed_hours <= step_end_hours)
RECURSIVE StepLoopInclusive(_, _, _, _)
StepLoopInclusive(steps, elapsed, i, cum) ==
    IF i > Len(steps)
    THEN << Len(steps) - 1, steps[Len(steps)].target_temp, 0 >>
    ELSE LET step == steps[i]
             step_end_hours == cum + step.duration_hours + step.ramp_hours
         IN  IF step.duration_hours = 0 /\ step.ramp_hours = 0
             THEN IF elapsed <= cum * SecondsPerHour
                  THEN << i - 1, step.target_temp, 0 >>
                  ELSE StepLoopInclusive(steps, elapsed, i + 1, cum)
             ELSE IF elapsed <= step_end_hours * SecondsPerHour
                  THEN LET time_in_step == elapsed - cum * SecondsPerHour
                           time_remaining == step_end_hours * SecondsPerHour - elapsed
                           ramp == step.ramp_hours * SecondsPerHour
                           prev_temp == IF i > 1 THEN steps[i - 1].target_temp
                                        ELSE step.target_temp
                       IN  IF step.ramp_hours > 0 /\ time_in_step < ramp
                           THEN << i - 1,
                                   RoundTenth(prev_temp * ramp
                                              + (step.target_temp - prev_temp) * time_in_step,
                                              ramp),
                                   time_remaining >>
                           ELSE << i - 1, step.target_temp, time_remaining >>
                  ELSE StepLoopInclusive(steps, elapsed, i + 1, step_end_hours)

calculate_current_step_inclusive(steps, start_time, now) ==
    IF Len(steps) = 0 \/ start_time = None
    THEN << None, None, None >>
    ELSE StepLoopInclusive(steps, now - start_time, 1, 0)

\* calculate_current_step(profile, start_time) called at wall-clock time now
calculate_current_step(steps, start_time, now) ==
    IF Len(steps) = 0 \/ start_time = None
    THEN << None, None, None >>
    ELSE StepLoop(steps, now - start_time, 1, 0)

----------------------------------------------------------------------------
(* app.py: inputs of the model *)

\* what a PT100 read returns for a fermenter: a temperature, or None when
\* get_reading reports a fault
FermenterReadings == {170, 190}

\* what the DS18B20 read returns for the glycol bath, or None on any error
GlycolReadings == {20, 200}

\* wall-clock time from one iteration of the loop to the next: the sleep of
\* READ_INTERVAL_SECONDS, or longer
TickDelays == {READ_INTERVAL_SECONDS, SecondsPerHour + 20}

\* target_temp values of set_target requests
TargetInputs == {185}

ControlModes == {"bangbang", "pid"}

----------------------------------------------------------------------------
(* app.py: state after the module is loaded and load_settings has run *)

\* call records the last direct call of a component: its operation, inputs,
\* clock reading and result, and those of the call before it
NoCall ==
    [ op |-> "none", seq |-> 0, now |-> 0, args |-> << >>, out |-> << >>,
      prev_op |-> "none", prev_now |-> 0, prev_args |-> << >>, prev_out |-> << >> ]

\* What load_settings found in SETTINGS_FILE: the control mode, and whether a
\* profile was running on fermenter 0 (started as the process went down)
LoadedSettings ==
    { [control_mode |-> "bangbang", profile |-> None],
      [control_mode |-> "pid", profile |-> None],
      [control_mode |-> "bangbang", profile |-> 1],
      [control_mode |-> "bangbang", profile |-> 2] }

\* no handler is part-way through a request
NoRequest ==
    [ op |-> "none", line |-> 0, fermenter_index |-> 0, profile_id |-> 0, found |-> << >> ]

InitWith(cfg) ==
    /\ clock = BootTime
    /\ pc = "sleep"
    /\ idx = 0
    /\ tick_count = 0
    /\ api_count = 0
    /\ current_glycol = 0
    /\ current_fermenters = [i \in Fermenters |-> 200]
    /\ target_glycol = 20
    /\ target_fermenters = [i \in Fermenters |-> DEFAULT_TARGET_FERMENTER]
    /\ chiller_on = FALSE
    /\ pump_on = FALSE
    /\ solenoid_states = [i \in Fermenters |-> FALSE]
    /\ heater_states = [i \in Fermenters |-> FALSE]
    /\ fermenter_active_status = [i \in Fermenters |-> TRUE]
    /\ fermenter_profiles = [i \in Fermenters |-> IF i = 0 THEN cfg.profile ELSE None]
    /\ fermenter_profile_start_times =
           [i \in Fermenters |-> IF i = 0 /\ cfg.profile # None THEN BootTime ELSE None]
    /\ fermenter_current_step = [i \in Fermenters |-> 0]
    /\ fermenter_profile_offsets = [i \in Fermenters |-> 0]
    /\ pid_outputs = [i \in Fermenters |-> RatZero]
    /\ control_mode = cfg.control_mode
    /\ pid_controllers = [i \in Fermenters |-> PIDController(PID_Kp, PID_Ki, PID_Kd)]
    /\ duty_cycle_managers =
           [i \in Fermenters |-> DutyCycleManager(PID_duty_cycle_seconds, BootTime)]
    /\ chiller_controller = ChillerController(CHILLER_MIN_ON_TIME, CHILLER_MIN_OFF_TIME)
    /\ fermenter_heating_duty = [i \in Fermenters |-> RatZero]
    /\ fermenter_cooling_duty = [i \in Fermenters |-> RatZero]
    /\ active_targets = << >>
    /\ cooling_duties = << >>
    /\ call = NoCall
    /\ request = NoRequest
    /\ PID_PARAMS = [ Kp |-> PID_Kp, Ki |-> PID_Ki, Kd |-> PID_Kd,
                      duty_cycle_seconds |-> PID_duty_cycle_seconds ]

\* control_loop builds one Max31865Pi per fermenter, with the default
\* resistances
InstalledSensors == [k \in Fermenters |-> Max31865Pi(100, 430)]

Init == \E cfg \in LoadedSettings : InitWith(cfg) /\ pt100_sensors = InstalledSensors

\* the variables that only the specifications of one component, of one
\* request or of the configuration follow; the controller specification draws what get_reading
\* returns as an input and serves each request in one step
unit_vars == << call, pt100_sensors, request, PID_PARAMS >>

api_vars == << api_count >>

----------------------------------------------------------------------------
(* app.py: control_loop *)

\* a good read switching the fermenter back on
ActiveAfterRead_recover(active, temp) ==
    IF temp = None THEN FALSE ELSE TRUE

\* fermenter_active_status[i] after the read of sensor i: a failed read
\* clears it, a good read leaves it alone
ActiveAfterRead(active, temp) ==
    IF temp = None THEN FALSE ELSE active

\* the sensor reads at the top of an iteration
ReadAll(d, g, r) ==
    /\ clock' = clock + d
    /\ tick_count' = tick_count + 1
    /\ current_glycol' = g
    /\ current_fermenters' = r
    /\ fermenter_active_status' =
           [i \in Fermenters |-> ActiveAfterRead(fermenter_active_status[i], r[i])]

\* An iteration starts: the clock is read, then the bath and every fermenter
TickStart(d, g, r) ==
    /\ pc = "sleep"
    /\ tick_count < MaxTicks
    /\ ReadAll(d, g, r)
    /\ active_targets' = << >>
    /\ cooling_duties' = << >>
    /\ pc' = "vessel"
    /\ idx' = 0
    /\ UNCHANGED << api_vars, unit_vars, target_glycol, target_fermenters, chiller_on,
                    pump_on, solenoid_states, heater_states, fermenter_profiles,
                    fermenter_profile_start_times, fermenter_current_step,
                    fermenter_profile_offsets, pid_outputs, control_mode,
                    pid_controllers, duty_cycle_managers, chiller_controller,
                    fermenter_heating_duty, fermenter_cooling_duty >>

\* The SPI exchange of sensor k raises inside get_reading (outside its try):
\* nothing in control_loop catches it and the control thread ends.  The
\* sensors before k were read.
TickRaise(d, g, r, k) ==
    /\ pc = "sleep"
    /\ tick_count < MaxTicks
    /\ clock' = clock + d
    /\ tick_count' = tick_count + 1
    /\ current_glycol' = g
    /\ current_fermenters' =
           [i \in Fermenters |-> IF i < k THEN r[i] ELSE current_fermenters[i]]
    /\ fermenter_active_status' =
           [i \in Fermenters |->
               IF i < k THEN ActiveAfterRead(fermenter_active_status[i], r[i])
               ELSE fermenter_active_status[i]]
    /\ pc' = "terminated"
    /\ UNCHANGED << idx, api_vars, unit_vars, target_glycol, target_fermenters,
                    chiller_on, pump_on, solenoid_states, heater_states,
                    fermenter_profiles, fermenter_profile_start_times,
                    fermenter_current_step, fermenter_profile_offsets, pid_outputs,
                    control_mode, pid_controllers, duty_cycle_managers,
                    chiller_controller, fermenter_heating_duty,
                    fermenter_cooling_duty, active_targets, cooling_duties >>

\* Target resolution of fermenter i (the manual target, or the profile's
\* target plus the offset): what the iteration stores and uses
ResolveTarget_offset_kept(i, now) ==
    LET manual == [ target |-> target_fermenters[i],
                    offset |-> fermenter_profile_offsets[i],
                    step |-> fermenter_current_step[i] ]
        steps == get_profile_by_id(fermenter_profiles[i])
        res == calculate_current_step(steps, fermenter_profile_start_times[i], now)
    IN  IF fermenter_profiles[i] = None \/ fermenter_profile_start_times[i] = None
        THEN manual
        ELSE IF Len(steps) = 0 \/ res[2] = None
        THEN manual
        ELSE [ target |-> res[2] + fermenter_profile_offsets[i],
               offset |-> fermenter_profile_offsets[i],
               step |-> IF res[1] # None THEN res[1] ELSE 0 ]

ResolveTarget(i, now) ==
    LET manual == [ target |-> target_fermenters[i],
                    offset |-> fermenter_profile_offsets[i],
                    step |-> fermenter_current_step[i] ]
        steps == get_profile_by_id(fermenter_profiles[i])
        res == calculate_current_step(steps, fermenter_profile_start_times[i], now)
    IN  IF fermenter_profiles[i] = None \/ fermenter_profile_start_times[i] = None
        THEN manual
        ELSE IF Len(steps) = 0 \/ res[2] = None
        THEN manual
        ELSE LET offset == IF res[1] # None /\ res[1] # fermenter_current_step[i]
                           THEN 0 ELSE fermenter_profile_offsets[i]
             IN  [ target |-> res[2] + offset,
                   offset |-> offset,
                   step |-> IF res[1] # None THEN res[1] ELSE 0 ]

\* the PID branch without set_heater_state(i, False) when cooling
PidActuators_heater_kept(dcm, heating_duty, cooling_duty, can_cool, now, heater, valve) ==
    IF cooling_duty.n > 0 /\ can_cool
    THEN [heater |-> heater, valve |-> should_be_on(dcm, cooling_duty, now)]
    ELSE IF heating_duty.n > 0
    THEN [heater |-> should_be_on(dcm, heating_duty, now), valve |-> FALSE]
    ELSE [heater |-> FALSE, valve |-> FALSE]

\* the heater and the valve after the PID branch
PidActuators(dcm, heating_duty, cooling_duty, can_cool, now, heater, valve) ==
    IF cooling_duty.n > 0 /\ can_cool
    THEN [heater |-> FALSE, valve |-> should_be_on(dcm, cooling_duty, now)]
    ELSE IF heating_duty.n > 0
    THEN [heater |-> should_be_on(dcm, heating_duty, now), valve |-> FALSE]
    ELSE [heater |-> FALSE, valve |-> FALSE]

\* the bang-bang branch closing the valve whenever can_cool is false
BangBangActuators_closed_without_coolant(current, target, can_cool, heater, valve) ==
    LET c == IF current > target + TEMP_HYSTERESIS /\ can_cool
             THEN [heater |-> FALSE, valve |-> TRUE]
             ELSE IF current < target \/ ~can_cool
             THEN [heater |-> heater, valve |-> FALSE]
             ELSE [heater |-> heater, valve |-> valve]
    IN  IF current < target - TEMP_HYSTERESIS
        THEN [heater |-> TRUE, valve |-> FALSE]
        ELSE IF current > target
        THEN [heater |-> FALSE, valve |-> c.valve]
        ELSE c

\* the heater and the valve after the bang-bang branch: the cooling logic,
\* then the heating logic
BangBangActuators(current, target, can_cool, heater, valve) ==
    LET c == IF current > target + TEMP_HYSTERESIS /\ can_cool
             THEN [heater |-> FALSE, valve |-> TRUE]
             ELSE IF current < target
             THEN [heater |-> heater, valve |-> FALSE]
             ELSE [heater |-> heater, valve |-> valve]
    IN  IF current < target - TEMP_HYSTERESIS
        THEN [heater |-> TRUE, valve |-> FALSE]
        ELSE IF current > target
        THEN [heater |-> FALSE, valve |-> c.valve]
        ELSE c

\* the skip branch resetting the PID controller in either mode
SkippedPid_reset_in_any_mode(self, mode) ==
    PIDReset(self)

\* the PID state of a fermenter that is skipped: reset in pid mode only
SkippedPid(self, mode) ==
    IF mode = "pid" THEN PIDReset(self) ELSE self

\* the skip branch without set_heater_state(i, False)
VesselSkip_heater_kept(i) ==
    /\ UNCHANGED heater_states
    /\ solenoid_states' = [solenoid_states EXCEPT ![i] = FALSE]
    /\ pid_controllers' =
           [pid_controllers EXCEPT ![i] = SkippedPid(pid_controllers[i], control_mode)]
    /\ fermenter_heating_duty' =
           IF control_mode = "pid"
           THEN [fermenter_heating_duty EXCEPT ![i] = RatZero]
           ELSE fermenter_heating_duty
    /\ fermenter_cooling_duty' =
           IF control_mode = "pid"
           THEN [fermenter_cooling_duty EXCEPT ![i] = RatZero]
           ELSE fermenter_cooling_duty
    /\ cooling_duties' = Append(cooling_duties, RatZero)
    /\ UNCHANGED << active_targets, target_fermenters, fermenter_current_step,
                    fermenter_profile_offsets, pid_outputs >>

\* Body of `for i in range(NUM_FERMENTERS)` for an inactive or failed fermenter
VesselSkip(i) ==
    /\ heater_states' = [heater_states EXCEPT ![i] = FALSE]
    /\ solenoid_states' = [solenoid_states EXCEPT ![i] = FALSE]
    /\ pid_controllers' =
           [pid_controllers EXCEPT ![i] = SkippedPid(pid_controllers[i], control_mode)]
    /\ fermenter_heating_duty' =
           IF control_mode = "pid"
           THEN [fermenter_heating_duty EXCEPT ![i] = RatZero]
           ELSE fermenter_heating_duty
    /\ fermenter_cooling_duty' =
           IF control_mode = "pid"
           THEN [fermenter_cooling_duty EXCEPT ![i] = RatZero]
           ELSE fermenter_cooling_duty
    /\ cooling_duties' = Append(cooling_duties, RatZero)
    /\ UNCHANGED << active_targets, target_fermenters, fermenter_current_step,
                    fermenter_profile_offsets, pid_outputs >>

\* Body of the loop for a fermenter under control
VesselControl(i) ==
    LET current_f_temp == current_fermenters[i]
        t == ResolveTarget(i, clock)
        can_cool == current_glycol # None /\ current_glycol < current_f_temp
        pid_output == PIDOutput(pid_controllers[i], t.target, current_f_temp, clock)
        duties == pid_output_to_duty_cycles(pid_output)
        act == IF control_mode = "pid"
               THEN PidActuators(duty_cycle_managers[i], duties[1], duties[2], can_cool,
                                 clock, heater_states[i], solenoid_states[i])
               ELSE BangBangActuators(current_f_temp, t.target, can_cool,
                                      heater_states[i], solenoid_states[i])
    IN  /\ target_fermenters' = [target_fermenters EXCEPT ![i] = t.target]
        /\ fermenter_profile_offsets' = [fermenter_profile_offsets EXCEPT ![i] = t.offset]
        /\ fermenter_current_step' = [fermenter_current_step EXCEPT ![i] = t.step]
        /\ active_targets' = Append(active_targets, t.target)
        /\ heater_states' = [heater_states EXCEPT ![i] = act.heater]
        /\ solenoid_states' = [solenoid_states EXCEPT ![i] = act.valve]
        /\ IF control_mode = "pid"
           THEN /\ pid_controllers' =
                       [pid_controllers EXCEPT
                           ![i] = PIDCompute(@, t.target, current_f_temp, clock)]
                /\ pid_outputs' = [pid_outputs EXCEPT ![i] = pid_output]
                /\ fermenter_heating_duty' =
                       [fermenter_heating_duty EXCEPT ![i] = duties[1]]
                /\ fermenter_cooling_duty' =
                       [fermenter_cooling_duty EXCEPT ![i] = duties[2]]
                /\ cooling_duties' = Append(cooling_duties, duties[2])
           ELSE /\ cooling_duties' = Append(cooling_duties, RatZero)
                /\ UNCHANGED << pid_controllers, pid_outputs, fermenter_heating_duty,
                                fermenter_cooling_duty >>

\* One pass of the per-fermenter loop
VesselStep ==
    /\ pc = "vessel"
    /\ IF ~fermenter_active_status[idx] \/ current_fermenters[idx] = None
       THEN VesselSkip(idx)
       ELSE VesselControl(idx)
    /\ IF idx = NumFermenters - 1
       THEN pc' = "pump" /\ idx' = 0
       ELSE pc' = pc /\ idx' = idx + 1
    /\ UNCHANGED << clock, tick_count, api_vars, unit_vars, current_glycol,
                    current_fermenters, target_glycol, chiller_on, pump_on,
                    fermenter_active_status, fermenter_profiles,
                    fermenter_profile_start_times, control_mode, duty_cycle_managers,
                    chiller_controller >>

\* the pump following the valve of the first fermenter only
PumpDecision_first(valves) ==
    valves[0]

\* pump_on after the pump control: any(solenoid_states)
PumpDecision(valves) ==
    \E i \in Fermenters : valves[i]

PumpStep ==
    /\ pc = "pump"
    /\ pump_on' = PumpDecision(solenoid_states)
    /\ pc' = "glycol"
    /\ UNCHANGED << clock, idx, tick_count, api_vars, unit_vars, current_glycol,
                    current_fermenters, target_glycol, target_fermenters, chiller_on,
                    solenoid_states, heater_states, fermenter_active_status,
                    fermenter_profiles, fermenter_profile_start_times,
                    fermenter_current_step, fermenter_profile_offsets, pid_outputs,
                    control_mode, pid_controllers, duty_cycle_managers,
                    chiller_controller, fermenter_heating_duty,
                    fermenter_cooling_duty, active_targets, cooling_duties >>

\* the fixed offset applied without the floor of MIN_GLYCOL_TEMP
GlycolSetpointBlock_unclamped(mode, dynamic, duties, targets) ==
    IF mode = "pid" /\ dynamic /\ Len(duties) > 0
    THEN calculate_dynamic_glycol_target(duties, targets, MIN_GLYCOL_TEMP,
                                         GLYCOL_TARGET_OFFSET)
    ELSE IF Len(targets) > 0
    THEN SeqMin(targets) - GLYCOL_TARGET_OFFSET
    ELSE None

\* the glycol setpoint block, dynamic being the value of
\* DYNAMIC_GLYCOL_SETPOINT that app_config.py gave the process
GlycolSetpointBlock(mode, dynamic, duties, targets) ==
    IF mode = "pid" /\ dynamic /\ Len(duties) > 0
    THEN calculate_dynamic_glycol_target(duties, targets, MIN_GLYCOL_TEMP,
                                         GLYCOL_TARGET_OFFSET)
    ELSE IF Len(targets) > 0
    THEN Max2(SeqMin(targets) - GLYCOL_TARGET_OFFSET, MIN_GLYCOL_TEMP)
    ELSE None

\* target_temperatures["glycol_bath"] after the glycol setpoint block
GlycolSetpoint(mode, duties, targets) ==
    GlycolSetpointBlock(mode, DYNAMIC_GLYCOL_SETPOINT, duties, targets)

GlycolStep ==
    /\ pc = "glycol"
    /\ target_glycol' = GlycolSetpoint(control_mode, cooling_duties, active_targets)
    /\ pc' = "chiller"
    /\ UNCHANGED << clock, idx, tick_count, api_vars, unit_vars, current_glycol,
                    current_fermenters, target_fermenters, chiller_on, pump_on,
                    solenoid_states, heater_states, fermenter_active_status,
                    fermenter_profiles, fermenter_profile_start_times,
                    fermenter_current_step, fermenter_profile_offsets, pid_outputs,
                    control_mode, pid_controllers, duty_cycle_managers,
                    chiller_controller, fermenter_heating_duty,
                    fermenter_cooling_duty, active_targets, cooling_duties >>

\* the chiller block leaving the compressor as it is when the bath reading
\* or the bath target is missing
ChillerDecision_kept_without_input(mode, guard, on, glycol_temp, glycol_target, now) ==
    IF glycol_temp # None /\ glycol_target # None
    THEN IF mode = "pid"
         THEN LET g == should_turn_on(guard, glycol_temp, glycol_target,
                                      GLYCOL_TEMP_HYSTERESIS, now)
              IN  << g, g.is_on >>
         ELSE IF glycol_temp > glycol_target + GLYCOL_TEMP_HYSTERESIS
              THEN << guard, TRUE >>
              ELSE IF glycol_temp < glycol_target - GLYCOL_TEMP_HYSTERESIS
              THEN << guard, FALSE >>
              ELSE << guard, on >>
    ELSE << guard, on >>

\* The chiller block: <<chiller_controller, chiller_on>> after it
ChillerDecision(mode, guard, on, glycol_temp, glycol_target, now) ==
    IF glycol_temp # None /\ glycol_target # None
    THEN IF mode = "pid"
         THEN LET g == should_turn_on(guard, glycol_temp, glycol_target,
                                      GLYCOL_TEMP_HYSTERESIS, now)
              IN  << g, g.is_on >>
         ELSE IF glycol_temp > glycol_target + GLYCOL_TEMP_HYSTERESIS
              THEN << guard, TRUE >>
              ELSE IF glycol_temp < glycol_target - GLYCOL_TEMP_HYSTERESIS
              THEN << guard, FALSE >>
              ELSE << guard, on >>
    ELSE << guard, FALSE >>

\* The chiller control, then the iteration sleeps
ChillerStep ==
    /\ pc = "chiller"
    /\ LET r == ChillerDecision(control_mode, chiller_controller, chiller_on,
                                current_glycol, target_glycol, clock)
       IN  /\ chiller_controller' = r[1]
           /\ chiller_on' = r[2]
    /\ pc' = "sleep"
    /\ UNCHANGED << clock, idx, tick_count, api_vars, unit_vars, current_glycol,
                    current_fermenters, target_glycol, target_fermenters, pump_on,
                    solenoid_states, heater_states, fermenter_active_status,
                    fermenter_profiles, fermenter_profile_start_times,
                    fermenter_current_step, fermenter_profile_offsets, pid_outputs,
                    control_mode, pid_controllers, duty_cycle_managers,
                    fermenter_heating_duty, fermenter_cooling_duty, active_targets,
                    cooling_duties >>

----------------------------------------------------------------------------
(* app.py: API handlers.  Each runs between two steps of the control thread. *)

\* An API request is served.  save_settings then writes SETTINGS_FILE, which
\* the running process never reads back (load_settings runs at startup only).
Served ==
    /\ api_count < MaxApi
    /\ api_count' = api_count + 1

tick_locals == << pc, idx, tick_count, clock, active_targets, cooling_duties >>

\* POST /api/control_mode
manage_control_mode(new_mode) ==
    /\ Served
    /\ control_mode' = new_mode
    /\ UNCHANGED << tick_locals, unit_vars, current_glycol, current_fermenters,
                    target_glycol, target_fermenters, chiller_on, pump_on,
                    solenoid_states, heater_states, fermenter_active_status,
                    fermenter_profiles, fermenter_profile_start_times,
                    fermenter_current_step, fermenter_profile_offsets, pid_outputs,
                    pid_controllers, duty_cycle_managers, chiller_controller,
                    fermenter_heating_duty, fermenter_cooling_duty >>

\* fermenter_profile_offsets[i] after a set_target of target_temp: the offset
\* from the profile target when a profile is active
OffsetAfterSetTarget_unchanged(i, target_temp, now) ==
    fermenter_profile_offsets[i]

OffsetAfterSetTarget(i, target_temp, now) ==
    LET steps == get_profile_by_id(fermenter_profiles[i])
        res == calculate_current_step(steps, fermenter_profile_start_times[i], now)
    IN  IF fermenter_profiles[i] # None /\ fermenter_profile_start_times[i] # None
           /\ Len(steps) > 0 /\ res[2] # None
        THEN target_temp - res[2]
        ELSE fermenter_profile_offsets[i]

\* POST /api/set_target with a valid index and value
set_target(i, target_temp) ==
    /\ Served
    /\ fermenter_profile_offsets' =
           [fermenter_profile_offsets EXCEPT ![i] = OffsetAfterSetTarget(i, target_temp, clock)]
    /\ target_fermenters' = [target_fermenters EXCEPT ![i] = target_temp]
    /\ UNCHANGED << tick_locals, unit_vars, current_glycol, current_fermenters,
                    target_glycol, chiller_on, pump_on, solenoid_states, heater_states,
                    fermenter_active_status, fermenter_profiles,
                    fermenter_profile_start_times, fermenter_current_step, pid_outputs,
                    control_mode, pid_controllers, duty_cycle_managers,
                    chiller_controller, fermenter_heating_duty,
                    fermenter_cooling_duty >>

\* an output of fermenter i after set_fermenter_status: forced off when the
\* fermenter is made inactive
OutputAfterStatus(is_active, output) ==
    IF ~is_active /\ output THEN FALSE ELSE output

\* POST /api/set_fermenter_status with a valid index and a boolean
set_fermenter_status_route(i, is_active) ==
    /\ Served
    /\ fermenter_active_status' = [fermenter_active_status EXCEPT ![i] = is_active]
    /\ solenoid_states' =
           [solenoid_states EXCEPT ![i] = OutputAfterStatus(is_active, @)]
    /\ heater_states' = [heater_states EXCEPT ![i] = OutputAfterStatus(is_active, @)]
    /\ UNCHANGED << tick_locals, unit_vars, current_glycol, current_fermenters,
                    target_glycol, target_fermenters, chiller_on, pump_on,
                    fermenter_profiles, fermenter_profile_start_times,
                    fermenter_current_step, fermenter_profile_offsets, pid_outputs,
                    control_mode, pid_controllers, duty_cycle_managers,
                    chiller_controller, fermenter_heating_duty,
                    fermenter_cooling_duty >>

\* the assignment without the reset of fermenter_current_step
assign_profile_step_kept(i, profile_id) ==
    /\ Served
    /\ IF Len(get_profile_by_id(profile_id)) = 0
       THEN UNCHANGED << fermenter_profiles, fermenter_profile_start_times,
                         fermenter_current_step, fermenter_profile_offsets,
                         fermenter_active_status >>
       ELSE /\ fermenter_profiles' = [fermenter_profiles EXCEPT ![i] = profile_id]
            /\ fermenter_profile_start_times' =
                   [fermenter_profile_start_times EXCEPT ![i] = clock]
            /\ fermenter_profile_offsets' = [fermenter_profile_offsets EXCEPT ![i] = 0]
            /\ fermenter_active_status' = [fermenter_active_status EXCEPT ![i] = TRUE]
            /\ UNCHANGED fermenter_current_step
    /\ UNCHANGED << tick_locals, unit_vars, current_glycol, current_fermenters,
                    target_glycol, target_fermenters, chiller_on, pump_on,
                    solenoid_states, heater_states, pid_outputs, control_mode,
                    pid_controllers, duty_cycle_managers, chiller_controller,
                    fermenter_heating_duty, fermenter_cooling_duty >>

\* POST /api/fermenter/<i>/profile: 404 when get_profile_by_id finds nothing,
\* else the profile is assigned and started
assign_profile(i, profile_id) ==
    /\ Served
    /\ IF Len(get_profile_by_id(profile_id)) = 0
       THEN UNCHANGED << fermenter_profiles, fermenter_profile_start_times,
                         fermenter_current_step, fermenter_profile_offsets,
                         fermenter_active_status >>
       ELSE /\ fermenter_profiles' = [fermenter_profiles EXCEPT ![i] = profile_id]
            /\ fermenter_profile_start_times' =
                   [fermenter_profile_start_times EXCEPT ![i] = clock]
            /\ fermenter_current_step' = [fermenter_current_step EXCEPT ![i] = 0]
            /\ fermenter_profile_offsets' = [fermenter_profile_offsets EXCEPT ![i] = 0]
            /\ fermenter_active_status' = [fermenter_active_status EXCEPT ![i] = TRUE]
    /\ UNCHANGED << tick_locals, unit_vars, current_glycol, current_fermenters,
                    target_glycol, target_fermenters, chiller_on, pump_on,
                    solenoid_states, heater_states, pid_outputs, control_mode,
                    pid_controllers, duty_cycle_managers, chiller_controller,
                    fermenter_heating_duty, fermenter_cooling_duty >>

\* DELETE /api/fermenter/<i>/profile
unassign_profile(i) ==
    /\ Served
    /\ fermenter_profiles' = [fermenter_profiles EXCEPT ![i] = None]
    /\ fermenter_profile_start_times' =
           [fermenter_profile_start_times EXCEPT ![i] = None]
    /\ fermenter_current_step' = [fermenter_current_step EXCEPT ![i] = 0]
    /\ fermenter_profile_offsets' = [fermenter_profile_offsets EXCEPT ![i] = 0]
    /\ fermenter_active_status' = [fermenter_active_status EXCEPT ![i] = FALSE]
    /\ UNCHANGED << tick_locals, unit_vars, current_glycol, current_fermenters,
                    target_glycol, target_fermenters, chiller_on, pump_on,
                    solenoid_states, heater_states, pid_outputs, control_mode,
                    pid_controllers, duty_cycle_managers, chiller_controller,
                    fermenter_heating_duty, fermenter_cooling_duty >>

\* cumulative hours to the start of the step after current_step_idx
RECURSIVE CumulativeHours(_, _)
CumulativeHours(steps, n) ==
    IF n = 0 THEN 0
    ELSE CumulativeHours(steps, n - 1) + steps[n].duration_hours + steps[n].ramp_hours

\* POST /api/fermenter/<i>/profile/skip on a fermenter with an active profile
\* that is not on its last step
skip_profile_step(i) ==
    LET steps == get_profile_by_id(fermenter_profiles[i])
        current_step_idx == fermenter_current_step[i]
    IN  /\ Served
        /\ fermenter_profiles[i] # None
        /\ fermenter_profile_start_times[i] # None
        /\ Len(steps) > 0
        /\ current_step_idx < Len(steps) - 1
        /\ fermenter_profile_start_times' =
               [fermenter_profile_start_times EXCEPT
                   ![i] = clock - CumulativeHours(steps, current_step_idx + 1) * SecondsPerHour]
        /\ fermenter_profile_offsets' = [fermenter_profile_offsets EXCEPT ![i] = 0]
        /\ UNCHANGED << tick_locals, unit_vars, current_glycol, current_fermenters,
                        target_glycol, target_fermenters, chiller_on, pump_on,
                        solenoid_states, heater_states, fermenter_active_status,
                        fermenter_profiles, fermenter_current_step, pid_outputs,
                        control_mode, pid_controllers, duty_cycle_managers,
                        chiller_controller, fermenter_heating_duty,
                        fermenter_cooling_duty >>
    
----------------------------------------------------------------------------
(* The controller: the control thread and the API handlers *)

Readings == [Fermenters -> FermenterReadings \cup {None}]

Tick ==
    \/ \E d \in TickDelays, g \in GlycolReadings \cup {None}, r \in Readings :
           TickStart(d, g, r)
    \/ VesselStep
    \/ PumpStep
    \/ GlycolStep
    \/ ChillerStep

Raise ==
    \E d \in TickDelays, g \in GlycolReadings \cup {None}, r \in Readings,
       k \in Fermenters :
           TickRaise(d, g, r, k)

Api ==
    \/ \E m \in ControlModes : manage_control_mode(m)
    \/ \E i \in Fermenters, t \in TargetInputs : set_target(i, t)
    \/ \E i \in Fermenters, b \in BOOLEAN : set_fermenter_status_route(i, b)
    \/ \E i \in Fermenters, p \in ProfileIdInputs : assign_profile(i, p)
    \/ \E i \in Fermenters : unassign_profile(i)
    \/ \E i \in Fermenters : skip_profile_step(i)

Next == Tick \/ Raise \/ Api

Spec == Init /\ [][Next]_vars

----------------------------------------------------------------------------
(* Direct calls of the components, as a test of one instance would make them *)

\* the variables of app.py that no direct call of a component touches
app_vars ==
    << pc, idx, tick_count, api_count, current_glycol, current_fermenters,
       target_glycol, target_fermenters, chiller_on, pump_on, solenoid_states,
       heater_states, fermenter_active_status, fermenter_profiles,
       fermenter_profile_start_times, fermenter_current_step,
       fermenter_profile_offsets, pid_outputs, control_mode,
       fermenter_heating_duty, fermenter_cooling_duty, active_targets,
       cooling_duties, pt100_sensors, request, PID_PARAMS >>

UnitInit ==
    InitWith([control_mode |-> "bangbang", profile |-> None])
        /\ pt100_sensors = InstalledSensors

Called(op, now, args, out) ==
    [ op |-> op, seq |-> call.seq + 1, now |-> now, args |-> args, out |-> out,
      prev_op |-> call.op, prev_now |-> call.now, prev_args |-> call.args,
      prev_out |-> call.out ]

\* time passes between two calls
Advance(d) ==
    /\ clock + d <= BootTime + UnitHorizon
    /\ clock' = clock + d
    /\ UNCHANGED << app_vars, pid_controllers, duty_cycle_managers, chiller_controller,
                    call >>

\* chiller_controller.should_turn_on(current_temp, target_temp, hysteresis),
\* d seconds after the call before
GuardCall(d, current_temp, target_temp, hysteresis) ==
    /\ call.seq < MaxGuardCalls
    /\ clock' = clock + d
    /\ chiller_controller' =
           should_turn_on(chiller_controller, current_temp, target_temp, hysteresis, clock')
    /\ call' = Called("should_turn_on", clock', << current_temp, target_temp, hysteresis >>,
                      << chiller_controller'.is_on >>)
    /\ UNCHANGED << app_vars, pid_controllers, duty_cycle_managers >>

\* pid_controllers[0].compute(setpoint, current_temp)
ComputeCall(setpoint, current_temp) ==
    /\ call.seq < MaxCalls
    /\ pid_controllers' =
           [pid_controllers EXCEPT ![0] = PIDCompute(@, setpoint, current_temp, clock)]
    /\ call' = Called("compute", clock, << setpoint, current_temp >>,
                      << PIDOutput(pid_controllers[0], setpoint, current_temp, clock) >>)
    /\ UNCHANGED << app_vars, clock, duty_cycle_managers, chiller_controller >>

\* should_be_on restarting the cycle at every call
DutyCycleAfter_restart(self, duty_percent, now) ==
    [self EXCEPT !.cycle_start = now]

\* the manager after should_be_on: the call reads cycle_start and
\* cycle_seconds and writes nothing
DutyCycleAfter(self, duty_percent, now) ==
    self

\* duty_cycle_managers[0].should_be_on(duty_percent)
ShouldBeOnCall(duty_percent) ==
    /\ call.seq < MaxCalls
    /\ duty_cycle_managers' =
           [duty_cycle_managers EXCEPT ![0] = DutyCycleAfter(@, duty_percent, clock)]
    /\ call' = Called("should_be_on", clock, << duty_percent >>,
                      << should_be_on(duty_cycle_managers[0], duty_percent, clock) >>)
    /\ UNCHANGED << app_vars, clock, pid_controllers, chiller_controller >>

\* calculate_current_step(profile, start_time) for a profile started
\* elapsed seconds ago
EvaluateCall(steps, elapsed) ==
    /\ call.seq < MaxCalls
    /\ call' = Called("evaluate", clock, << steps, elapsed >>,
                      calculate_current_step(steps, clock - elapsed, clock))
    /\ UNCHANGED << app_vars, clock, pid_controllers, duty_cycle_managers,
                    chiller_controller >>

\* inputs of the direct calls
GuardDelays == {0, 100, CHILLER_MIN_OFF_TIME, CHILLER_MIN_ON_TIME}

GuardTemps == {0, 20, 40}

UnitDelays == {30}

UnitSetpoints == {180}

UnitTemps == {170, 180, 190}

UnitDuties == {Rat(0, 1), Rat(40, 1), Rat(100, 1)}

UnitElapsedHours == {0, 72, 78, 1000}

GuardNext ==
    \E d \in GuardDelays, t \in GuardTemps : GuardCall(d, t, 20, GLYCOL_TEMP_HYSTERESIS)

GuardSpec == UnitInit /\ [][GuardNext]_vars

UnitNext ==
    \/ \E d \in UnitDelays : Advance(d)
    \/ \E sp \in UnitSetpoints, t \in UnitTemps : ComputeCall(sp, t)
    \/ \E duty \in UnitDuties : ShouldBeOnCall(duty)
    \/ \E h \in UnitElapsedHours : EvaluateCall(ExampleProfile, h * SecondsPerHour)

UnitSpec == UnitInit /\ [][UnitNext]_vars

----------------------------------------------------------------------------
(* profiles.py: calculate_current_step on any profile *)

\* target_temp values of the steps of a stored profile
StepTargets == {20, 180}

\* << duration_hours, ramp_hours >> of a step: marker, hold, ramp, ramp and hold
StepShapes == { << 0, 0 >>, << 1, 0 >>, << 0, 1 >>, << 1, 1 >> }

StepChoices ==
    { [target_temp |-> t, duration_hours |-> sh[1], ramp_hours |-> sh[2]] :
          t \in StepTargets, sh \in StepShapes }

\* the profiles create_profile accepts (it validates nothing), up to MaxSteps
\* steps, and the example profile
StoredProfiles ==
    UNION { [1 .. n -> StepChoices] : n \in 1 .. MaxSteps } \cup { ExampleProfile }

\* seconds since the profile was started
ElapsedInputs ==
    { k * (SecondsPerHour \div 3) : k \in 0 .. MaxElapsedSteps }
        \cup { h * SecondsPerHour : h \in {72, 78, 1000} }

\* calculate_current_step(profile, start_time) as the first call of a run
ProfileEvaluate(steps, elapsed) ==
    /\ call.op = "none"
    /\ call' = Called("evaluate", clock, << steps, elapsed >>,
                      calculate_current_step(steps, clock - elapsed, clock))
    /\ UNCHANGED << app_vars, clock, pid_controllers, duty_cycle_managers,
                    chiller_controller >>

ProfileNext ==
    /\ call.op = "none"
    /\ \E steps \in StoredProfiles, elapsed \in ElapsedInputs :
           ProfileEvaluate(steps, elapsed)

ProfileSpec == UnitInit /\ [][ProfileNext]_vars

----------------------------------------------------------------------------
(* pid_controller.py: PIDController with any gains *)

\* Ki of a controller: PID_PARAMS['Ki'] is whatever /api/config stored
KiInputs == { RatZero, PID_Ki, [n |-> 2, d |-> 1] }

\* seconds of time.time() from one compute to the next; the clock may stand
\* still or be set back
PidDelays == { 0 - 5, 0, 1, 60 }

\* measurements: an error of +50.0, 0 and -50.0 degrees
PidTemps == { 0 - 320, 180, 680 }

\* PIDController(Kp, Ki, Kd), built before the first compute
PidConstruct(Ki) ==
    /\ call.op = "none"
    /\ pid_controllers' = [pid_controllers EXCEPT ![0] = PIDController(PID_Kp, Ki, PID_Kd)]
    /\ call' = Called("PIDController", clock, << Ki >>, << >>)
    /\ UNCHANGED << app_vars, clock, duty_cycle_managers, chiller_controller >>

\* pid_controllers[0].compute(setpoint, current_temp), d seconds after the
\* call before
PidComputeCall(d, setpoint, current_temp) ==
    /\ call.op # "none"
    /\ call.seq <= MaxCalls
    /\ clock' = clock + d
    /\ pid_controllers' =
           [pid_controllers EXCEPT ![0] = PIDCompute(@, setpoint, current_temp, clock')]
    /\ call' = Called("compute", clock', << setpoint, current_temp >>,
                      << PIDOutput(pid_controllers[0], setpoint, current_temp, clock') >>)
    /\ UNCHANGED << app_vars, duty_cycle_managers, chiller_controller >>

PidNext ==
    \/ \E Ki \in KiInputs : PidConstruct(Ki)
    \/ \E d \in PidDelays, t \in PidTemps : PidComputeCall(d, DEFAULT_TARGET_FERMENTER, t)

PidSpec == UnitInit /\ [][PidNext]_vars

----------------------------------------------------------------------------
(* pid_controller.py: DutyCycleManager sampled through its cycle *)

\* duty_percent values: below 0, 0, 25.5, 40, 100 and above 100
DutyInputs ==
    { Rat(0 - 10, 1), RatZero, Rat(51, 2), Rat(40, 1), Rat(100, 1), Rat(150, 1) }

\* seconds of time.time() from one should_be_on to the next
DutyDelays == { 0, 1, 7, 23 }

\* duty_cycle_managers[0].should_be_on(duty_percent), d seconds after the
\* call before
DutyCall(d, duty_percent) ==
    /\ call.seq < MaxCalls
    /\ clock' = clock + d
    /\ duty_cycle_managers' =
           [duty_cycle_managers EXCEPT ![0] = DutyCycleAfter(@, duty_percent, clock')]
    /\ call' = Called("should_be_on", clock', << duty_percent >>,
                      << should_be_on(duty_cycle_managers[0], duty_percent, clock') >>)
    /\ UNCHANGED << app_vars, pid_controllers, chiller_controller >>

DutyNext ==
    \E d \in DutyDelays, duty \in DutyInputs : DutyCall(d, duty)

DutySpec == UnitInit /\ [][DutyNext]_vars

----------------------------------------------------------------------------
(* app.py: the glycol setpoint block of control_loop on the lists that the   *)
(* per-fermenter loop builds                                                 *)

\* target_f_temp values: -3.0, 2.0 and 18.0 degrees
GlycolTargets == { 0 - 30, 20, 180 }

\* cooling_duty values of the PID branch: 0, 25.5, 30, 50, 70 and 100 percent
GlycolDuties == { RatZero, Rat(51, 2), Rat(30, 1), Rat(50, 1), Rat(70, 1), Rat(100, 1) }

\* How the per-fermenter loop leaves a fermenter: skipped (inactive or no
\* reading) with the target it has stored, or controlled to a target with the
\* cooling duty that the PID branch computes
VesselOutcomes ==
    { [skipped |-> TRUE, target |-> t, cooling_duty |-> RatZero] : t \in GlycolTargets }
        \cup { [skipped |-> FALSE, target |-> t, cooling_duty |-> d] :
                   t \in GlycolTargets, d \in GlycolDuties }

\* active_targets after the passes over fermenters 0 .. n-1
RECURSIVE ActiveTargetsOf(_, _)
ActiveTargetsOf(outcome, n) ==
    IF n = 0 THEN << >>
    ELSE IF outcome[n - 1].skipped THEN ActiveTargetsOf(outcome, n - 1)
    ELSE Append(ActiveTargetsOf(outcome, n - 1), outcome[n - 1].target)

\* cooling_duties after the passes over fermenters 0 .. n-1: 0 for a skipped
\* fermenter and in bangbang mode
RECURSIVE CoolingDutiesOf(_, _, _)
CoolingDutiesOf(mode, outcome, n) ==
    IF n = 0 THEN << >>
    ELSE Append(CoolingDutiesOf(mode, outcome, n - 1),
                IF outcome[n - 1].skipped \/ mode # "pid" THEN RatZero
                ELSE outcome[n - 1].cooling_duty)

\* the lists of one iteration, then its glycol setpoint block
GlycolPass(mode, dynamic, outcome) ==
    /\ call.op = "none"
    /\ active_targets' = ActiveTargetsOf(outcome, NumFermenters)
    /\ cooling_duties' = CoolingDutiesOf(mode, outcome, NumFermenters)
    /\ target_glycol' = GlycolSetpointBlock(mode, dynamic, cooling_duties', active_targets')
    /\ call' = Called("glycol_setpoint", clock, << mode, dynamic, outcome >>,
                      << target_glycol' >>)
    /\ UNCHANGED << clock, pc, idx, tick_count, api_count, current_glycol,
                    current_fermenters, target_fermenters, chiller_on, pump_on,
                    solenoid_states, heater_states, fermenter_active_status,
                    fermenter_profiles, fermenter_profile_start_times,
                    fermenter_current_step, fermenter_profile_offsets, pid_outputs,
                    control_mode, pid_controllers, duty_cycle_managers,
                    chiller_controller, fermenter_heating_duty,
                    fermenter_cooling_duty, pt100_sensors, request, PID_PARAMS >>

GlycolNext ==
    /\ call.op = "none"
    /\ \E mode \in ControlModes, dynamic \in BOOLEAN,
          outcome \in [Fermenters -> VesselOutcomes] :
              GlycolPass(mode, dynamic, outcome)

GlycolSpec == UnitInit /\ [][GlycolNext]_vars

----------------------------------------------------------------------------
(* app.py: set_target and set_fermenter_status_route on the JSON body that   *)
(* request.get_json returns                                                  *)

\* A value of the JSON body as Python sees it.  kind is its type; v is the
\* number (a float in tenths, a bool as 0 or 1); text is a str, one character
\* per element.  "missing" is a key that the body does not have.
Json(kind, v, text) == [ kind |-> kind, v |-> v, text |-> text ]

JsonMissing == Json("missing", 0, << >>)

JsonNull == Json("null", 0, << >>)

JsonInt(n) == Json("int", n, << >>)

JsonFloat(tenths) == Json("float", tenths, << >>)

JsonBool(b) == Json("bool", IF b THEN 1 ELSE 0, << >>)

JsonStr(text) == Json("str", 0, text)

JsonList == Json("list", 0, << >>)

\* the result of a conversion: a value, or the exception that it raises
Converted(v) == [ raised |-> "", v |-> v ]

Raises(exception) == [ raised |-> exception, v |-> 0 ]

DecimalDigits == << "0", "1", "2", "3", "4", "5", "6", "7", "8", "9" >>

IsDigits(s) ==
    \A k \in 1 .. Len(s) : \E d \in 1 .. 10 : DecimalDigits[d] = s[k]

RECURSIVE DigitsValue(_)
DigitsValue(s) ==
    IF s = << >> THEN 0
    ELSE DigitsValue(SubSeq(s, 1, Len(s) - 1)) * 10
             + ((CHOOSE d \in 1 .. 10 : DecimalDigits[d] = s[Len(s)]) - 1)

\* a numeric literal without its sign, and the sign
Unsigned(s) == IF Len(s) > 0 /\ s[1] \in {"-", "+"} THEN Tail(s) ELSE s

SignOf(s) == IF Len(s) > 0 /\ s[1] = "-" THEN 0 - 1 ELSE 1

\* the position of the decimal point of a literal, 0 when it has none
PointAt(s) ==
    IF \E k \in 1 .. Len(s) : s[k] = "."
    THEN CHOOSE k \in 1 .. Len(s) : s[k] = "." /\ \A j \in 1 .. k - 1 : s[j] # "."
    ELSE 0

\* int(x): an int or a bool as it is, a float truncated towards zero, a str
\* parsed as an integer literal (ValueError otherwise), TypeError for a list
int(x) ==
    CASE x.kind \in {"int", "bool"} -> Converted(x.v)
      [] x.kind = "float" ->
             Converted(IF x.v >= 0 THEN x.v \div 10 ELSE 0 - ((0 - x.v) \div 10))
      [] x.kind = "str" ->
             LET digits == Unsigned(x.text)
             IN  IF Len(digits) > 0 /\ IsDigits(digits)
                 THEN Converted(SignOf(x.text) * DigitsValue(digits))
                 ELSE Raises("ValueError")
      [] OTHER -> Raises("TypeError")

\* float(x), in tenths: a float as it is, an int or a bool converted, a str
\* parsed as a decimal literal of at most one decimal (ValueError otherwise),
\* TypeError for a list
float(x) ==
    CASE x.kind = "float" -> Converted(x.v)
      [] x.kind \in {"int", "bool"} -> Converted(x.v * 10)
      [] x.kind = "str" ->
             LET literal == Unsigned(x.text)
                 point == PointAt(literal)
                 whole == IF point = 0 THEN literal ELSE SubSeq(literal, 1, point - 1)
                 decimals == IF point = 0 THEN << >>
                             ELSE SubSeq(literal, point + 1, Len(literal))
             IN  IF /\ Len(whole) + Len(decimals) > 0
                    /\ Len(decimals) <= 1
                    /\ IsDigits(whole)
                    /\ IsDigits(decimals)
                 THEN Converted(SignOf(x.text)
                                    * (DigitsValue(whole) * 10 + DigitsValue(decimals)))
                 ELSE Raises("ValueError")
      [] OTHER -> Raises("TypeError")

\* the HTTP status of the except clauses of both handlers
StatusOfException(exception) == IF exception = "ValueError" THEN 400 ELSE 500

\* What set_target decides on a body: the HTTP status, and the fermenter
\* index and target temperature that it goes on to store when the status is
\* 200
set_target_reply(data) ==
    LET fermenter_index == int(data.fermenter_index)
        target_temp == float(data.target_temp)
        rejected(status) ==
            [ status |-> status, fermenter_index |-> 0, target_temp |-> 0 ]
    IN  IF data.fermenter_index.kind = "missing" /\ data.target_temp.kind = "missing"
        THEN rejected(400)
        ELSE IF \/ data.fermenter_index.kind \in {"missing", "null"}
                \/ data.target_temp.kind \in {"missing", "null"}
        THEN rejected(400)
        ELSE IF fermenter_index.raised # ""
        THEN rejected(StatusOfException(fermenter_index.raised))
        ELSE IF target_temp.raised # ""
        THEN rejected(StatusOfException(target_temp.raised))
        ELSE IF ~(0 <= fermenter_index.v /\ fermenter_index.v < NumFermenters)
        THEN rejected(400)
        ELSE [ status |-> 200, fermenter_index |-> fermenter_index.v,
               target_temp |-> target_temp.v ]

\* the variables that neither handler writes
request_frame ==
    << clock, pc, idx, tick_count, api_count, current_glycol, current_fermenters,
       target_glycol, chiller_on, pump_on, fermenter_profiles,
       fermenter_profile_start_times, fermenter_current_step, pid_outputs,
       control_mode, pid_controllers, duty_cycle_managers, chiller_controller,
       fermenter_heating_duty, fermenter_cooling_duty, active_targets,
       cooling_duties, pt100_sensors, request, PID_PARAMS >>

\* POST /api/set_target with the body data
set_target_request(data) ==
    LET reply == set_target_reply(data)
        i == reply.fermenter_index
    IN  /\ call.seq < MaxCalls
        /\ IF reply.status = 200
           THEN /\ fermenter_profile_offsets' =
                       [fermenter_profile_offsets EXCEPT
                            ![i] = OffsetAfterSetTarget(i, reply.target_temp, clock)]
                /\ target_fermenters' =
                       [target_fermenters EXCEPT ![i] = reply.target_temp]
           ELSE UNCHANGED << fermenter_profile_offsets, target_fermenters >>
        /\ call' = Called("set_target", clock, << data >>, << reply.status >>)
        /\ UNCHANGED << request_frame, fermenter_active_status, solenoid_states,
                        heater_states >>

\* What set_fermenter_status_route decides on a body
set_fermenter_status_reply(data) ==
    LET fermenter_index == int(data.fermenter_index)
        rejected(status) ==
            [ status |-> status, fermenter_index |-> 0, is_active |-> FALSE ]
    IN  IF data.fermenter_index.kind = "missing" /\ data.is_active.kind = "missing"
        THEN rejected(400)
        ELSE IF \/ data.fermenter_index.kind \in {"missing", "null"}
                \/ data.is_active.kind \in {"missing", "null"}
        THEN rejected(400)
        ELSE IF data.is_active.kind # "bool"
        THEN rejected(400)
        ELSE IF fermenter_index.raised # ""
        THEN rejected(StatusOfException(fermenter_index.raised))
        ELSE IF ~(0 <= fermenter_index.v /\ fermenter_index.v < NumFermenters)
        THEN rejected(400)
        ELSE [ status |-> 200, fermenter_index |-> fermenter_index.v,
               is_active |-> data.is_active.v = 1 ]

\* POST /api/set_fermenter_status with the body data
set_fermenter_status_request(data) ==
    LET reply == set_fermenter_status_reply(data)
        i == reply.fermenter_index
    IN  /\ call.seq < MaxCalls
        /\ IF reply.status = 200
           THEN /\ fermenter_active_status' =
                       [fermenter_active_status EXCEPT ![i] = reply.is_active]
                /\ solenoid_states' =
                       [solenoid_states EXCEPT
                            ![i] = OutputAfterStatus(reply.is_active, @)]
                /\ heater_states' =
                       [heater_states EXCEPT
                            ![i] = OutputAfterStatus(reply.is_active, @)]
           ELSE UNCHANGED << fermenter_active_status, solenoid_states, heater_states >>
        /\ call' = Called("set_fermenter_status", clock, << data >>, << reply.status >>)
        /\ UNCHANGED << request_frame, fermenter_profile_offsets, target_fermenters >>

\* fermenter_index values of a body: absent, null, the valid indexes, -1 and
\* NUM_FERMENTERS, 0.5 and 1.9, true, "1", "abc", "1.5" and a list
IndexInputs ==
    { JsonMissing, JsonNull, JsonInt(0 - 1), JsonInt(NumFermenters), JsonFloat(5),
      JsonFloat(19), JsonBool(TRUE), JsonStr(<< "1" >>), JsonStr(<< "a", "b", "c" >>),
      JsonStr(<< "1", ".", "5" >>), JsonList }
        \cup { JsonInt(i) : i \in Fermenters }

\* target_temp values of a body: absent, null, 19, 18.5, -300.0, true,
\* "18.5", "-2", "abc" and a list
TargetTempInputs ==
    { JsonMissing, JsonNull, JsonInt(19), JsonFloat(185), JsonFloat(0 - 3000),
      JsonBool(TRUE), JsonStr(<< "1", "8", ".", "5" >>), JsonStr(<< "-", "2" >>),
      JsonStr(<< "a", "b", "c" >>), JsonList }

\* is_active values of a body: absent, null, the booleans, 1, "true"
IsActiveInputs ==
    { JsonMissing, JsonNull, JsonBool(TRUE), JsonBool(FALSE), JsonInt(1),
      JsonStr(<< "t", "r", "u", "e" >>) }

\* bodies in which one field varies and the other is well formed, and the
\* empty body
SetTargetBodies ==
    { [fermenter_index |-> x, target_temp |-> JsonFloat(185)] : x \in IndexInputs }
        \cup { [fermenter_index |-> JsonInt(0), target_temp |-> t] :
                   t \in TargetTempInputs }
        \cup { [fermenter_index |-> JsonMissing, target_temp |-> JsonMissing] }

SetStatusBodies ==
    { [fermenter_index |-> x, is_active |-> JsonBool(FALSE)] : x \in IndexInputs }
        \cup { [fermenter_index |-> JsonInt(0), is_active |-> a] : a \in IsActiveInputs }
        \cup { [fermenter_index |-> JsonMissing, is_active |-> JsonMissing] }

RequestNext ==
    \/ \E data \in SetTargetBodies : set_target_request(data)
    \/ \E data \in SetStatusBodies : set_fermenter_status_request(data)

RequestSpec == UnitInit /\ [][RequestNext]_vars

----------------------------------------------------------------------------
(* app.py: the POST branch of manage_fermenter_profile statement by          *)
(* statement.  The handler runs on a Flask thread and control_loop on its    *)
(* own thread, with no lock: the control thread can run between any two      *)
(* statements of the handler.                                                *)

\* request follows a handler through its statements: line is the statement
\* it executes next, found the profile id and start time that it found
AssignBegin(i, profile_id) ==
    /\ request.op = "none"
    /\ Served
    /\ Len(get_profile_by_id(profile_id)) > 0
    /\ request' = [ op |-> "assign_profile", line |-> 828, fermenter_index |-> i,
                    profile_id |-> profile_id,
                    found |-> << fermenter_profiles[i],
                                 fermenter_profile_start_times[i] >> ]
    /\ UNCHANGED << tick_locals, call, pt100_sensors, PID_PARAMS, current_glycol,
                    current_fermenters, target_glycol, target_fermenters, chiller_on,
                    pump_on, solenoid_states, heater_states, fermenter_active_status,
                    fermenter_profiles, fermenter_profile_start_times,
                    fermenter_current_step, fermenter_profile_offsets, pid_outputs,
                    control_mode, pid_controllers, duty_cycle_managers,
                    chiller_controller, fermenter_heating_duty,
                    fermenter_cooling_duty >>

\* the statement at request.line: lines 828 to 832 assign one list element
\* each, line 834 is save_settings and the response
AssignLine ==
    LET i == request.fermenter_index
    IN  /\ request.op = "assign_profile"
        /\ fermenter_profiles' =
               IF request.line = 828
               THEN [fermenter_profiles EXCEPT ![i] = request.profile_id]
               ELSE fermenter_profiles
        /\ fermenter_profile_start_times' =
               IF request.line = 829
               THEN [fermenter_profile_start_times EXCEPT ![i] = clock]
               ELSE fermenter_profile_start_times
        /\ fermenter_current_step' =
               IF request.line = 830
               THEN [fermenter_current_step EXCEPT ![i] = 0]
               ELSE fermenter_current_step
        /\ fermenter_profile_offsets' =
               IF request.line = 831
               THEN [fermenter_profile_offsets EXCEPT ![i] = 0]
               ELSE fermenter_profile_offsets
        /\ fermenter_active_status' =
               IF request.line = 832
               THEN [fermenter_active_status EXCEPT ![i] = TRUE]
               ELSE fermenter_active_status
        /\ request' =
               IF request.line = 834 THEN NoRequest
               ELSE [request EXCEPT !.line = IF @ = 832 THEN 834 ELSE @ + 1]
        /\ UNCHANGED << tick_locals, api_count, call, pt100_sensors, PID_PARAMS, current_glycol,
                        current_fermenters, target_glycol, target_fermenters,
                        chiller_on, pump_on, solenoid_states, heater_states,
                        pid_outputs, control_mode, pid_controllers,
                        duty_cycle_managers, chiller_controller,
                        fermenter_heating_duty, fermenter_cooling_duty >>

\* ShortProfile has been running on fermenter 0 since the process started
RaceInit ==
    /\ InitWith([control_mode |-> "bangbang", profile |-> 1])
    /\ pt100_sensors = InstalledSensors

RaceNext ==
    \/ Tick
    \/ \E i \in Fermenters, p \in ProfileIds : AssignBegin(i, p)
    \/ AssignLine

RaceSpec == RaceInit /\ [][RaceNext]_vars

----------------------------------------------------------------------------
(* app.py: get_reading calls on Max31865Pi instances                         *)

\* get_reading calls made in one run
MaxReads == 3

\* The RTD code that the chip reports for a resistance given in hundredths of
\* an ohm, to the nearest code of its 15 bits: the inverse of
\* res = (raw_rtd / 32768.0) * ref_resistor
RawRtdFor(centiohm, ref_resistor) ==
    Min2(RtdFullScale - 1,
         (centiohm * RtdFullScale + ref_resistor * 50) \div (ref_resistor * 100))

\* Resistances at the first instance, hundredths of an ohm: a short (0 and
\* 5 ohm), PT100 resistances from 60.26 to 390.48 ohm, and 450 ohm
ReadResistances ==
    { 0, 500, 6026, 8031, 10000, 11940, 13850, 13851, 15000, 17586, 39048, 45000 }

\* RTD codes on either side of 10 ohm and of 400 ohm with the 430 ohm
\* reference
EdgeCodes == { 762, 763, 30481, 30482 }

\* raw words of _read_u16(0x01) at the first instance: bit 0 is the fault
\* bit, the RTD code is above it
ReadWords(self) ==
    { 2 * RawRtdFor(r, self.ref_resistor) : r \in ReadResistances }
        \cup { 2 * c : c \in EdgeCodes }
        \cup { 2 * RawRtdFor(15000, self.ref_resistor) + 1, 1 }

\* raw words at the other instances: 150 and 450 ohm, and 150 ohm with the
\* fault bit
OtherWords(self) ==
    { 2 * RawRtdFor(r, self.ref_resistor) : r \in { 15000, 45000 } }
        \cup { 2 * RawRtdFor(15000, self.ref_resistor) + 1 }

\* the instance after get_reading has returned for each of the raw words
RECURSIVE AfterReadings(_, _)
AfterReadings(self, raws) ==
    IF Len(raws) = 0 THEN self
    ELSE AfterReadings(get_reading(self, Head(raws)).sensor, Tail(raws))

\* nine readings: 100 ohm, then 138.5 ohm eight times
NineReadings ==
    << 2 * RawRtdFor(10000, 430) >>
        \o [k \in 1 .. 8 |-> 2 * RawRtdFor(13850, 430)]

\* The instances as a run finds them: the first is the instance that
\* control_loop builds (100 ohm nominal, 430 ohm reference), new or after nine
\* readings; the others have a 430 or 860 ohm reference and are new
SensorSets ==
    { [k \in Fermenters |->
          IF k = 0 THEN AfterReadings(Max31865Pi(100, 430), raws)
          ELSE Max31865Pi(100, ref)] :
          raws \in { << >>, NineReadings }, ref \in { 430, 860 } }

SensorInit ==
    /\ InitWith([control_mode |-> "bangbang", profile |-> None])
    /\ pt100_sensors \in SensorSets

\* The samples that each instance has converted before the call about to be
\* made, oldest first: all that the buffers hold when the run begins, then
\* one more for each reading that returned OK
SamplesSoFar ==
    IF call.op # "get_reading" THEN [k \in Fermenters |-> pt100_sensors[k].history]
    ELSE IF call.out[2] = "OK"
    THEN [call.args[3] EXCEPT
              ![call.args[1]] =
                  Append(@, RtdTemperature(pt100_sensors[call.args[1]],
                                           call.args[2] \div 2))]
    ELSE call.args[3]

\* pt100_sensors[k].get_reading() when the chip answers raw; call keeps the
\* instance, the raw word and the samples converted before the call, and what
\* the call returned
SensorRead(k, raw) ==
    LET r == get_reading(pt100_sensors[k], raw)
    IN  /\ call.seq < MaxReads
        /\ pt100_sensors' = [pt100_sensors EXCEPT ![k] = r.sensor]
        /\ call' = Called("get_reading", clock, << k, raw, SamplesSoFar >>,
                          << r.temp, r.status >>)
        /\ UNCHANGED << clock, pc, idx, tick_count, api_count, current_glycol,
                        current_fermenters, target_glycol, target_fermenters,
                        chiller_on, pump_on, solenoid_states, heater_states,
                        fermenter_active_status, fermenter_profiles,
                        fermenter_profile_start_times, fermenter_current_step,
                        fermenter_profile_offsets, pid_outputs, control_mode,
                        pid_controllers, duty_cycle_managers, chiller_controller,
                        fermenter_heating_duty, fermenter_cooling_duty,
                        active_targets, cooling_duties, request,
                        PID_PARAMS >>

\* the raw words drawn at instance k
WordsAt(k) ==
    IF k = 0 THEN ReadWords(pt100_sensors[k]) ELSE OtherWords(pt100_sensors[k])

SensorNext ==
    /\ call.seq < MaxReads
    /\ \E k \in Fermenters : \E raw \in WordsAt(k) : SensorRead(k, raw)

SensorSpec == SensorInit /\ [][SensorNext]_vars

----------------------------------------------------------------------------
(* POST /api/config beside the control thread *)

\* The bodies of POST /api/config explored.  `valid` tells whether every
\* required field is there and coerces, and the pin lists have
\* NUM_FERMENTERS entries; `given` names the optional fields that the body
\* holds.  The required fields TEMP_HYSTERESIS, GLYCOL_TEMP_HYSTERESIS,
\* GLYCOL_TARGET_OFFSET and READ_INTERVAL_SECONDS repeat the values that the
\* process runs with, as the form sends them when nobody has edited them.
ConfigBodies ==
    { [ valid |-> TRUE, given |-> {},
        CONTROL_MODE |-> "bangbang", PID_KP |-> PID_Kp, PID_KI |-> PID_Ki,
        PID_KD |-> PID_Kd, PID_DUTY_CYCLE |-> PID_duty_cycle_seconds ],
      [ valid |-> TRUE, given |-> {"CONTROL_MODE", "PID_KP"},
        CONTROL_MODE |-> "pid", PID_KP |-> 2 * PID_Kp, PID_KI |-> PID_Ki,
        PID_KD |-> PID_Kd, PID_DUTY_CYCLE |-> PID_duty_cycle_seconds ],
      [ valid |-> TRUE,
        given |-> {"CONTROL_MODE", "PID_KP", "PID_KI", "PID_KD", "PID_DUTY_CYCLE"},
        CONTROL_MODE |-> "pid", PID_KP |-> PID_Kp, PID_KI |-> [n |-> 1, d |-> 1],
        PID_KD |-> 2 * PID_Kd, PID_DUTY_CYCLE |-> 2 * PID_duty_cycle_seconds ],
      [ valid |-> FALSE, given |-> {"CONTROL_MODE", "PID_KP"},
        CONTROL_MODE |-> "pid", PID_KP |-> 2 * PID_Kp, PID_KI |-> PID_Ki,
        PID_KD |-> PID_Kd, PID_DUTY_CYCLE |-> PID_duty_cycle_seconds ] }

\* data.get(key, default)
ConfigGet(data, key, default) ==
    IF key \in data.given THEN data[key] ELSE default

\* PID_PARAMS after the handler has coerced the optional fields of data
UpdatedPidParams(data) ==
    [ Kp |-> ConfigGet(data, "PID_KP", PID_PARAMS.Kp),
      Ki |-> ConfigGet(data, "PID_KI", PID_PARAMS.Ki),
      Kd |-> ConfigGet(data, "PID_KD", PID_PARAMS.Kd),
      duty_cycle_seconds |->
          ConfigGet(data, "PID_DUTY_CYCLE", PID_PARAMS.duty_cycle_seconds) ]

\* POST /api/config.  A body that is not valid is answered with status 400
\* before anything is assigned.  A valid one assigns the live parameters,
\* control_mode and the four entries of PID_PARAMS, then rewrites
\* app_config.py, which the running process does not read again; no
\* statement of the handler touches pid_controllers or duty_cycle_managers.
manage_config(data) ==
    /\ Served
    /\ IF data.valid
       THEN /\ control_mode' =
                   IF ConfigGet(data, "CONTROL_MODE", "bangbang") \in ControlModes
                   THEN ConfigGet(data, "CONTROL_MODE", "bangbang")
                   ELSE "bangbang"
            /\ PID_PARAMS' = UpdatedPidParams(data)
       ELSE UNCHANGED << control_mode, PID_PARAMS >>
    /\ UNCHANGED << tick_locals, call, pt100_sensors, request, current_glycol,
                    current_fermenters, target_glycol, target_fermenters, chiller_on,
                    pump_on, solenoid_states, heater_states, fermenter_active_status,
                    fermenter_profiles, fermenter_profile_start_times,
                    fermenter_current_step, fermenter_profile_offsets, pid_outputs,
                    pid_controllers, duty_cycle_managers, chiller_controller,
                    fermenter_heating_duty, fermenter_cooling_duty >>

ConfigNext ==
    \/ Tick
    \/ \E data \in ConfigBodies : manage_config(data)

ConfigSpec == Init /\ [][ConfigNext]_vars

----------------------------------------------------------------------------
(* pid_controller.py: a ChillerController from its construction on *)

\* values of min_off_time given to the constructor, in seconds
MinOffTimes == {0, CHILLER_MIN_OFF_TIME, 900}

\* chiller_controller = ChillerController(CHILLER_MIN_ON_TIME, min_off_time):
\* a new instance takes the place of the one before
ConstructGuard(min_off_time) ==
    /\ call.seq < MaxGuardCalls
    /\ chiller_controller' = ChillerController(CHILLER_MIN_ON_TIME, min_off_time)
    /\ call' = Called("ChillerController", clock, << CHILLER_MIN_ON_TIME, min_off_time >>,
                      << >>)
    /\ UNCHANGED << app_vars, clock, pid_controllers, duty_cycle_managers >>

FreshGuardNext ==
    \/ \E m \in MinOffTimes : ConstructGuard(m)
    \/ \E d \in GuardDelays, t \in GuardTemps : GuardCall(d, t, 20, GLYCOL_TEMP_HYSTERESIS)

FreshGuardSpec == UnitInit /\ [][FreshGuardNext]_vars

----------------------------------------------------------------------------
(* Properties *)

\* the control thread is between two iterations of its loop: a tick boundary
AtTickBoundary == pc = "sleep"

\* the step is one of the control thread
ControlStep == << pc, idx, tick_count >>' # << pc, idx, tick_count >>

\* C1: at every tick boundary and after every API operation, a fermenter
\* whose active flag is false has its heater off and its valve closed.
C1_InactiveOutputsOff ==
    AtTickBoundary =>
        \A i \in Fermenters :
            ~fermenter_active_status[i] => ~heater_states[i] /\ ~solenoid_states[i]

\* C2: a should_turn_on call switches the guard ON->OFF only when the time
\* since last_state_change is at least min_on_time and current < target -
\* hysteresis, OFF->ON only when it is at least min_off_time and current >
\* target + hysteresis; a call that does not switch leaves last_state_change
\* unchanged, and a call that switches sets it to the call's time.
C2_GuardTransitions ==
    [][ call'.seq # call.seq =>
            LET g == chiller_controller
                h == chiller_controller'
                now == call'.now
                current_temp == call'.args[1]
                target_temp == call'.args[2]
                hysteresis == call'.args[3]
            IN  /\ (g.is_on /\ ~h.is_on) =>
                       /\ now - g.last_state_change >= g.min_on_time
                       /\ current_temp < target_temp - hysteresis
                /\ (~g.is_on /\ h.is_on) =>
                       /\ now - g.last_state_change >= g.min_off_time
                       /\ current_temp > target_temp + hysteresis
                /\ h.last_state_change =
                       IF h.is_on = g.is_on THEN g.last_state_change ELSE now
                /\ call'.out = << h.is_on >> ]_vars

\* C2 witness: the guard was switched on and off again, with a call in
\* between that asked for off before min_on_time had passed
C2_Witness ==
    /\ call.op = "should_turn_on"
    /\ call.seq = 3
    /\ ~chiller_controller.is_on
    /\ chiller_controller.last_state_change = call.now
    /\ call.prev_out = << TRUE >>
    /\ call.prev_args[1] < call.prev_args[2] - call.prev_args[3]

\* C3: at the end of every tick in which the bath temperature and the bath
\* target are present, in either control mode, the chiller output is the
\* state the Compressor Guard holds.
C3_ChillerFollowsGuard ==
    (AtTickBoundary /\ tick_count > 0 /\ current_glycol # None /\ target_glycol # None)
        => chiller_on = chiller_controller.is_on

\* C4: at the end of every tick no fermenter has its heater on and its
\* valve open together.
C4_HeatCoolExclusive ==
    AtTickBoundary =>
        \A i \in Fermenters : ~(heater_states[i] /\ solenoid_states[i])

\* C4 witness: a tick in pid mode has ended with fermenter 0 being cooled
\* and fermenter 1 being heated
C4_Witness ==
    /\ AtTickBoundary
    /\ tick_count = 2
    /\ control_mode = "pid"
    /\ solenoid_states[0]
    /\ ~heater_states[0]
    /\ heater_states[1]

\* C5: at every tick boundary and after every API operation the pump is on
\* exactly when some valve is open.
C5_PumpIffValveOpen ==
    AtTickBoundary => (pump_on <=> \E i \in Fermenters : solenoid_states[i])

\* C6: when the per-fermenter pass of a tick finds a fermenter inactive or
\* without a reading, in either control mode, it leaves that fermenter's PID
\* state reset.
C6_SkippedPidReset ==
    [][ ( /\ pc = "vessel"
          /\ ControlStep
          /\ (~fermenter_active_status[idx] \/ current_fermenters[idx] = None) )
        => /\ pid_controllers'[idx].integral = 0
           /\ pid_controllers'[idx].last_error = 0
           /\ pid_controllers'[idx].last_time = None ]_vars

\* C7: the control thread never terminates.
C7_ControlThreadAlive ==
    pc # "terminated"

\* C8: a step of the control thread never turns an active flag from false to
\* true, and its pass over an inactive fermenter leaves the heater off and
\* the valve closed and keeps the reading.
C8_TickNeverActivates ==
    [][ ControlStep =>
            /\ \A i \in Fermenters :
                   fermenter_active_status'[i] => fermenter_active_status[i]
            /\ (pc = "vessel" /\ ~fermenter_active_status[idx]) =>
                   /\ ~heater_states'[idx]
                   /\ ~solenoid_states'[idx]
                   /\ current_fermenters'[idx] = current_fermenters[idx] ]_vars

\* C8 witness: with no API request made, fermenter 0 is inactive after the
\* second tick although that tick read a valid temperature for it
C8_Witness ==
    /\ AtTickBoundary
    /\ tick_count = 2
    /\ api_count = 0
    /\ ~fermenter_active_status[0]
    /\ current_fermenters[0] # None
    /\ ~heater_states[0]
    /\ ~solenoid_states[0]

\* the last call repeats the one before it: same operation, same inputs,
\* same clock reading
Repeated ==
    /\ call.seq >= 2
    /\ call.prev_op = call.op
    /\ call.prev_now = call.now
    /\ call.prev_args = call.args

\* C9 as stated: evaluate, compute and should_be_on each return the same
\* output when called twice in a row with identical inputs at the same time.
C9_AllIdempotent ==
    (Repeated /\ call.op \in {"evaluate", "compute", "should_be_on"})
        => call.out = call.prev_out

\* C9 amended: evaluate and should_be_on return the same output when called
\* twice in a row with identical inputs at the same time.
C9_EvaluateAndDutyIdempotent ==
    (Repeated /\ call.op \in {"evaluate", "should_be_on"})
        => call.out = call.prev_out

\* C9 witness: should_be_on was called twice in a row with a duty strictly
\* between 0 and 100 at a time when the relay is in the off part of its cycle
C9_Witness ==
    /\ Repeated
    /\ call.op = "should_be_on"
    /\ call.args = << Rat(40, 1) >>
    /\ call.out = << FALSE >>

\* C10 as stated: on the example profile, evaluate at elapsed = 72 h returns
\* step index 1, target 18.0 and 0 hours remaining.
C10_PrimaryEndIsStepOne ==
    (call.op = "evaluate" /\ call.args = << ExampleProfile, 72 * SecondsPerHour >>)
        => call.out = << 1, 180, 0 >>

\* C10 amended: on the example profile, evaluate at elapsed = 72 h returns
\* step index 2 (Crash, at the start of its ramp), target 18.0 and 60 hours
\* remaining.
C10_PrimaryEndIsCrashStart ==
    (call.op = "evaluate" /\ call.args = << ExampleProfile, 72 * SecondsPerHour >>)
        => call.out = << 2, 180, 60 * SecondsPerHour >>

\* C10 witness: evaluate was called on the example profile at elapsed = 72 h
C10_Witness ==
    /\ call.op = "evaluate"
    /\ call.args = << ExampleProfile, 72 * SecondsPerHour >>
    /\ call.out[1] = 2

\* hours from the start of the schedule to the end of step n
RECURSIVE HoursThrough(_, _)
HoursThrough(steps, n) ==
    IF n = 0 THEN 0
    ELSE HoursThrough(steps, n - 1) + steps[n].duration_hours + steps[n].ramp_hours

IsMarker(step) == step.duration_hours = 0 /\ step.ramp_hours = 0

\* step i takes an evaluation at elapsed seconds: a marker up to and at its
\* position, another step strictly before its end
Takes(steps, elapsed, i) ==
    IF IsMarker(steps[i])
    THEN elapsed <= HoursThrough(steps, i - 1) * SecondsPerHour
    ELSE elapsed < HoursThrough(steps, i) * SecondsPerHour

FirstTaking(steps, elapsed, i) ==
    /\ Takes(steps, elapsed, i)
    /\ \A j \in 1 .. (i - 1) : ~Takes(steps, elapsed, j)

\* index and time remaining of out are those of step i selected at elapsed
SelectedAs(steps, elapsed, i, out) ==
    /\ out[1] = i - 1
    /\ IF IsMarker(steps[i])
       THEN out[2] = steps[i].target_temp /\ out[3] = 0
       ELSE out[3] = HoursThrough(steps, i) * SecondsPerHour - elapsed

HeldAtLast(steps, out) ==
    out = << Len(steps) - 1, steps[Len(steps)].target_temp, 0 >>

\* an evaluation of the profile specification has returned
Evaluated == call.op = "evaluate" /\ call.seq = 1

\* C11 as stated: evaluate returns an index within 0..len-1; at or beyond the
\* total schedule it returns the last step with 0 remaining; before it, the
\* first step in order that is a marker with elapsed <= cumulative hours or a
\* step whose end is strictly greater than elapsed.
C11_LastStepFromTotal ==
    Evaluated =>
        LET steps == call.args[1]
            elapsed == call.args[2]
        IN  /\ call.out[1] \in 0 .. (Len(steps) - 1)
            /\ IF elapsed >= HoursThrough(steps, Len(steps)) * SecondsPerHour
               THEN HeldAtLast(steps, call.out)
               ELSE \E i \in 1 .. Len(steps) :
                        FirstTaking(steps, elapsed, i)
                            /\ SelectedAs(steps, elapsed, i, call.out)

\* C11 amended: evaluate returns an index within 0..len-1; it selects the
\* first step in order that is a marker with elapsed <= cumulative hours or a
\* step whose end is strictly greater than elapsed; when there is no such
\* step it returns the last step with 0 remaining.
C11_FirstTakingStep ==
    Evaluated =>
        LET steps == call.args[1]
            elapsed == call.args[2]
        IN  /\ call.out[1] \in 0 .. (Len(steps) - 1)
            /\ IF \E i \in 1 .. Len(steps) : Takes(steps, elapsed, i)
               THEN \E i \in 1 .. Len(steps) :
                        FirstTaking(steps, elapsed, i)
                            /\ SelectedAs(steps, elapsed, i, call.out)
               ELSE HeldAtLast(steps, call.out)

\* C11 witness: an evaluation exactly at the total of a schedule that ends in
\* two markers returned the first of them, not the last step
C11_Witness ==
    /\ Evaluated
    /\ Len(call.args[1]) = 3
    /\ call.args[2] = HoursThrough(call.args[1], 3) * SecondsPerHour
    /\ call.args[2] > 0
    /\ call.out[1] = 1
    /\ call.out[2] # call.args[1][3].target_temp

\* the linear interpolation at time_in_step of the ramp of step i, times the
\* ramp's length in seconds
RampNumerator(steps, elapsed, i) ==
    LET prev == IF i > 1 THEN steps[i - 1].target_temp ELSE steps[i].target_temp
        time_in_step == elapsed - HoursThrough(steps, i - 1) * SecondsPerHour
    IN  prev * steps[i].ramp_hours * SecondsPerHour
            + (steps[i].target_temp - prev) * time_in_step

\* the target returned for step i, a step with a ramp: within tolerance
\* (in ramp-seconds of a tenth) of the interpolation while ramping, prev at
\* the start of the ramp, between prev and the step's target, and the step's
\* target once the ramp is over
RampTarget(steps, elapsed, i, target, tolerance) ==
    LET prev == IF i > 1 THEN steps[i - 1].target_temp ELSE steps[i].target_temp
        ramp == steps[i].ramp_hours * SecondsPerHour
        time_in_step == elapsed - HoursThrough(steps, i - 1) * SecondsPerHour
    IN  IF time_in_step < ramp
        THEN /\ Abs(target * ramp - RampNumerator(steps, elapsed, i)) <= tolerance
             /\ time_in_step = 0 => target = prev
             /\ target >= Min2(prev, steps[i].target_temp)
             /\ target <= Max2(prev, steps[i].target_temp)
        ELSE target = steps[i].target_temp

\* C12 as stated: in a step with a ramp, evaluate's target equals
\* prev + (step_target - prev) * time_in_step / ramp_hours while
\* time_in_step < ramp_hours (prev at the start, never outside the interval
\* between prev and step_target), and step_target from then on; 6 h into the
\* 12 h ramp from 18 to 2 it is 10.0.
C12_RampExact ==
    Evaluated =>
        LET steps == call.args[1]
            elapsed == call.args[2]
        IN  /\ \A i \in 1 .. Len(steps) :
                   (FirstTaking(steps, elapsed, i) /\ steps[i].ramp_hours > 0)
                       => RampTarget(steps, elapsed, i, call.out[2], 0)
            /\ (steps = ExampleProfile /\ elapsed = 78 * SecondsPerHour)
                   => call.out[2] = 100

\* C12 amended: as stated, with the target while ramping being the
\* interpolation rounded to one decimal place, so at most 0.05 away from it.
C12_RampRounded ==
    Evaluated =>
        LET steps == call.args[1]
            elapsed == call.args[2]
        IN  /\ \A i \in 1 .. Len(steps) :
                   (FirstTaking(steps, elapsed, i) /\ steps[i].ramp_hours > 0)
                       => RampTarget(steps, elapsed, i, call.out[2],
                                     (steps[i].ramp_hours * SecondsPerHour) \div 2)
            /\ (steps = ExampleProfile /\ elapsed = 78 * SecondsPerHour)
                   => call.out[2] = 100

\* C12 witness: an evaluation one third into a one-hour ramp from 18.0 to 2.0
\* returned 12.7, the interpolation 12.666... rounded
C12_Witness ==
    /\ Evaluated
    /\ Len(call.args[1]) = 2
    /\ call.args[1][1] = [target_temp |-> 180, duration_hours |-> 1, ramp_hours |-> 0]
    /\ call.args[1][2] = [target_temp |-> 20, duration_hours |-> 0, ramp_hours |-> 1]
    /\ call.args[2] = SecondsPerHour + SecondsPerHour \div 3
    /\ call.out = << 1, 127, 2 * (SecondsPerHour \div 3) >>

\* fermenter i has a profile assigned that the store still holds
ProfileRunning(i) ==
    /\ fermenter_profiles[i] # None
    /\ fermenter_profile_start_times[i] # None
    /\ fermenter_profiles[i] \in ProfileIds

\* what the Profile Engine resolves for fermenter i at the clock's time
Resolved(i) ==
    calculate_current_step(get_profile_by_id(fermenter_profiles[i]),
                           fermenter_profile_start_times[i], clock)

\* C13: when the per-fermenter pass of a tick controls an active fermenter
\* with a profile, a resolved step index different from the recorded one sets
\* the offset to 0 and records the resolved index; an equal one leaves the
\* offset unchanged; the target becomes the profile target plus the offset.
C13_OffsetResetOnStepChange ==
    [][ ( /\ pc = "vessel"
          /\ ControlStep
          /\ fermenter_active_status[idx]
          /\ current_fermenters[idx] # None
          /\ ProfileRunning(idx) )
        => /\ fermenter_current_step'[idx] = Resolved(idx)[1]
           /\ fermenter_profile_offsets'[idx] =
                  IF Resolved(idx)[1] # fermenter_current_step[idx]
                  THEN 0 ELSE fermenter_profile_offsets[idx]
           /\ target_fermenters'[idx] =
                  Resolved(idx)[2] + fermenter_profile_offsets'[idx] ]_vars

\* C13 witness: the second tick has ended with fermenter 0 still in step 1 of
\* its profile and the offset that a set-target request gave it after the
\* first tick
C13_Witness ==
    /\ AtTickBoundary
    /\ tick_count = 2
    /\ fermenter_active_status[0]
    /\ ProfileRunning(0)
    /\ fermenter_current_step[0] = 1
    /\ fermenter_profile_offsets[0] = 5
    /\ target_fermenters[0] = 185
    /\ active_targets[1] = 185

\* C14: a set-target request with value T stores T as the fermenter's target;
\* with a profile running it stores offset = T - (profile target resolved at
\* the time of the request), without one it leaves the offset unchanged; the
\* profile assignment, start time and recorded step index are unchanged.
C14_SetTargetEffect ==
    [][ \A i \in Fermenters, T \in TargetInputs :
            set_target(i, T) =>
                /\ target_fermenters'[i] = T
                /\ fermenter_profile_offsets'[i] =
                       IF ProfileRunning(i) THEN T - Resolved(i)[2]
                       ELSE fermenter_profile_offsets[i]
                /\ fermenter_profiles' = fermenter_profiles
                /\ fermenter_profile_start_times' = fermenter_profile_start_times
                /\ fermenter_current_step' = fermenter_current_step
                /\ \A j \in Fermenters \ {i} :
                       /\ target_fermenters'[j] = target_fermenters[j]
                       /\ fermenter_profile_offsets'[j] = fermenter_profile_offsets[j] ]_vars

\* C14 witness: a set-target request of 18.5 was served for fermenter 0 while
\* its profile was in the ramp of its last step, at a profile target below 18.0
C14_Witness ==
    /\ api_count = 1
    /\ ProfileRunning(0)
    /\ fermenter_current_step[0] = 2
    /\ target_fermenters[0] = 185
    /\ fermenter_profile_offsets[0] > 5
    /\ fermenter_profile_offsets[0] = 185 - Resolved(0)[2]

\* C15: a skip-step on a fermenter whose recorded step index is S leaves the
\* offset 0 and a start time from which the next evaluation, after any tick
\* delay that stays within step S+1 (any delay for a zero-duration marker,
\* which has no extent), resolves step index S+1 with time_in_step equal to
\* that delay.
C15_SkipLandsOnNextStep ==
    [][ \A i \in Fermenters :
            skip_profile_step(i) =>
                LET steps == get_profile_by_id(fermenter_profiles[i])
                    S == fermenter_current_step[i]
                    next == steps[S + 2]
                    len == (next.duration_hours + next.ramp_hours) * SecondsPerHour
                IN  /\ fermenter_profile_offsets'[i] = 0
                    /\ \A d \in TickDelays :
                           (IsMarker(next) \/ d < len) =>
                               LET out == calculate_current_step(
                                              steps, fermenter_profile_start_times'[i],
                                              clock + d)
                               IN  /\ out[1] = S + 1
                                   /\ ~IsMarker(next) => out[3] = len - d ]_vars

\* C16: a profile assignment on fermenter i with a stored profile sets i's
\* profile id to it, start time to now, recorded step index to 0, offset to 0
\* and active to true, and changes no field of another fermenter; with an
\* unknown profile id it changes nothing.
C16_AssignEffect ==
    [][ \A i \in Fermenters, p \in ProfileIdInputs :
            assign_profile(i, p) =>
                IF p \in ProfileIds
                THEN /\ fermenter_profiles'[i] = p
                     /\ fermenter_profile_start_times'[i] = clock
                     /\ fermenter_current_step'[i] = 0
                     /\ fermenter_profile_offsets'[i] = 0
                     /\ fermenter_active_status'[i]
                     /\ \A j \in Fermenters \ {i} :
                            /\ fermenter_profiles'[j] = fermenter_profiles[j]
                            /\ fermenter_profile_start_times'[j] =
                                   fermenter_profile_start_times[j]
                            /\ fermenter_current_step'[j] = fermenter_current_step[j]
                            /\ fermenter_profile_offsets'[j] = fermenter_profile_offsets[j]
                            /\ fermenter_active_status'[j] = fermenter_active_status[j]
                            /\ target_fermenters'[j] = target_fermenters[j]
                            /\ current_fermenters'[j] = current_fermenters[j]
                            /\ heater_states'[j] = heater_states[j]
                            /\ solenoid_states'[j] = solenoid_states[j]
                            /\ pid_controllers'[j] = pid_controllers[j]
                ELSE UNCHANGED << fermenter_profiles, fermenter_profile_start_times,
                                  fermenter_current_step, fermenter_profile_offsets,
                                  fermenter_active_status, target_fermenters,
                                  current_fermenters, heater_states, solenoid_states,
                                  pid_controllers, pid_outputs, control_mode,
                                  target_glycol, chiller_on, pump_on >> ]_vars

\* C16 witness: fermenter 1, whose sensor faulted in the last tick, is active
\* again with profile 1 just started, after the one request served
C16_Witness ==
    /\ api_count = 1
    /\ tick_count >= 1
    /\ current_fermenters[1] = None
    /\ fermenter_profiles[1] = 1
    /\ fermenter_profile_start_times[1] = clock
    /\ fermenter_current_step[1] = 0
    /\ fermenter_profile_offsets[1] = 0
    /\ fermenter_active_status[1]
    /\ fermenter_profiles[0] = 2
    /\ fermenter_current_step[0] = 0

\* C17: after every compute call, whatever the setpoints, measurements and
\* time steps, |Ki * integral| <= (max_output - min_output) / 2 when Ki # 0,
\* |integral| <= 1000 when Ki = 0, and the output is within
\* [min_output, max_output].  (integral is in tenths of a degree-second.)
C17_AntiWindup ==
    LET c == pid_controllers[0]
    IN  /\ c.Ki.n # 0 =>
               2 * Abs(c.Ki.n * c.integral) <= 10 * (c.max_output - c.min_output) * c.Ki.d
        /\ c.Ki.n = 0 => Abs(c.integral) <= 10 * 1000
        /\ call.op = "compute" =>
               /\ c.min_output * call.out[1].d <= call.out[1].n
               /\ call.out[1].n <= c.max_output * call.out[1].d

\* C17 witness: a controller with Ki = 0.5 has had three computes with an
\* error of 50 degrees, the last one 60 s after the one before, and its
\* integral stands at the clamp of 200 degree-seconds
C17_Witness ==
    /\ call.op = "compute"
    /\ call.seq = MaxCalls + 1
    /\ call.now - call.prev_now = 60
    /\ call.args = << DEFAULT_TARGET_FERMENTER, 0 - 320 >>
    /\ pid_controllers[0].Ki = PID_Ki
    /\ pid_controllers[0].integral = 10 * 200
    /\ call.out = << Rat(PID_max_output, 1) >>

\* the rational q is within lo .. hi
RatWithin(q, lo, hi) == lo * q.d <= q.n /\ q.n <= hi * q.d

\* C18: after every tick, for every fermenter, pid_output is within
\* [-100, 100], heating_duty and cooling_duty are within [0, 100], and at most
\* one of the two duties is nonzero.
C18_DutyRanges ==
    AtTickBoundary =>
        \A i \in Fermenters :
            /\ RatWithin(pid_outputs[i], 0 - 100, 100)
            /\ RatWithin(fermenter_heating_duty[i], 0, 100)
            /\ RatWithin(fermenter_cooling_duty[i], 0, 100)
            /\ fermenter_heating_duty[i].n = 0 \/ fermenter_cooling_duty[i].n = 0

\* C18 witness: a tick in pid mode has ended with fermenter 0 asking for
\* 25.5 % heating and fermenter 1 for 25.5 % cooling
C18_Witness ==
    /\ AtTickBoundary
    /\ control_mode = "pid"
    /\ tick_count >= 1
    /\ pid_outputs[0] = Rat(51, 2)
    /\ fermenter_heating_duty[0] = Rat(51, 2)
    /\ pid_outputs[1] = Rat(0 - 51, 2)
    /\ fermenter_cooling_duty[1] = Rat(51, 2)
    /\ fermenter_heating_duty[1] = RatZero

\* C19: a should_turn_on call made at or after last_state_change +
\* min_off_time with the turn-on condition presented switches the guard on in
\* that call, one made at or after last_state_change + min_on_time with the
\* turn-off condition presented switches it off in that call; the call's time
\* becomes last_state_change and the call returns the new state.
C19_PendingRequestHonored ==
    [][ call'.seq # call.seq =>
            LET g == chiller_controller
                h == chiller_controller'
                now == call'.now
                current_temp == call'.args[1]
                target_temp == call'.args[2]
                hysteresis == call'.args[3]
            IN  /\ ( /\ ~g.is_on
                     /\ now - g.last_state_change >= g.min_off_time
                     /\ current_temp > target_temp + hysteresis )
                   => (h.is_on /\ h.last_state_change = now /\ call'.out = << TRUE >>)
                /\ ( /\ g.is_on
                     /\ now - g.last_state_change >= g.min_on_time
                     /\ current_temp < target_temp - hysteresis )
                   => (~h.is_on /\ h.last_state_change = now /\ call'.out = << FALSE >>) ]_vars

\* C19 witness: the guard, switched off by the second call, refused a turn-on
\* asked by the third call before min_off_time had passed and switched on in
\* the fourth call, exactly min_off_time after it was switched off
C19_Witness ==
    /\ call.op = "should_turn_on"
    /\ call.seq = 4
    /\ chiller_controller.is_on
    /\ chiller_controller.last_state_change = call.now
    /\ call.out = << TRUE >>
    /\ call.prev_out = << FALSE >>
    /\ call.prev_args[1] > call.prev_args[2] + call.prev_args[3]
    /\ call.prev_now = call.now - CHILLER_MIN_OFF_TIME

\* seconds of the cycle starting now in which the relay would be on
OnSeconds(duty_percent) ==
    Cardinality({ t \in 0 .. (PID_duty_cycle_seconds - 1) :
                      should_be_on(duty_cycle_managers[0], duty_percent, clock + t) })

\* C20: should_be_on is false for duty <= 0, true for duty >= 100, and
\* otherwise true exactly when ((now - cycle_reference_time) mod cycle_length)
\* < cycle_length * duty / 100, the reference time being the time of
\* construction, which should_be_on never changes; over the full cycle that
\* starts at any moment, sampled every second, the on-time is 0 for duty <= 0,
\* the whole cycle for duty >= 100 and otherwise within one second of
\* cycle_length * duty / 100: 24 of 60 for duty 40.
C20_DutyCycle ==
    /\ duty_cycle_managers[0] = DutyCycleManager(PID_duty_cycle_seconds, BootTime)
    /\ call.op = "should_be_on" =>
           LET duty == call.args[1]
               elapsed == (call.now - BootTime) % PID_duty_cycle_seconds
           IN  call.out[1] =
                   IF duty.n <= 0 THEN FALSE
                   ELSE IF duty.n >= 100 * duty.d THEN TRUE
                   ELSE elapsed * 100 * duty.d < PID_duty_cycle_seconds * duty.n
    /\ \A duty \in DutyInputs :
           IF duty.n <= 0 THEN OnSeconds(duty) = 0
           ELSE IF duty.n >= 100 * duty.d THEN OnSeconds(duty) = PID_duty_cycle_seconds
           ELSE Abs(OnSeconds(duty) * 100 * duty.d - PID_duty_cycle_seconds * duty.n)
                    <= 100 * duty.d
    /\ OnSeconds(Rat(40, 1)) = 24

\* C20 witness: with duty 40 the relay was on 23 s into the cycle and is off
\* one second later, at elapsed = on_time = 24 s
C20_Witness ==
    /\ call.op = "should_be_on"
    /\ call.prev_op = "should_be_on"
    /\ call.args = << Rat(40, 1) >>
    /\ call.prev_args = << Rat(40, 1) >>
    /\ call.prev_now = BootTime + 23
    /\ call.now = BootTime + 24
    /\ call.prev_out = << TRUE >>
    /\ call.out = << FALSE >>

\* the fermenters that the iteration of the last glycol_setpoint call controlled
Controlled == { i \in Fermenters : ~call.args[3][i].skipped }

\* the cooling duty that the iteration appended for fermenter i
Demand(i) ==
    IF call.args[3][i].skipped \/ call.args[1] # "pid" THEN RatZero
    ELSE call.args[3][i].cooling_duty

\* the minimum target over the controlled fermenters
LowestTarget ==
    CHOOSE t \in { call.args[3][i].target : i \in Controlled } :
        \A i \in Controlled : t <= call.args[3][i].target

\* C21: after every tick, in either control mode and with the dynamic
\* setpoint enabled or disabled, the bath target is unset or at least
\* MIN_GLYCOL_TEMP.
C21_BathTargetFloor ==
    call.op = "glycol_setpoint" =>
        (target_glycol = None \/ target_glycol >= MIN_GLYCOL_TEMP)

\* C21 witness: with the dynamic setpoint disabled, a fermenter controlled to
\* -3.0 degrees asks for a bath at -8.0 and the bath target is MIN_GLYCOL_TEMP
C21_Witness ==
    /\ call.op = "glycol_setpoint"
    /\ ~call.args[2]
    /\ Controlled # {}
    /\ LowestTarget - GLYCOL_TARGET_OFFSET < MIN_GLYCOL_TEMP
    /\ target_glycol = MIN_GLYCOL_TEMP

\* C22: in a pid-mode tick with the dynamic setpoint enabled the bath target
\* is max(MIN_GLYCOL_TEMP, X), X being L + 5 when the maximum cooling duty
\* across fermenters is 0, L - 2 when it is below 30, L - 4 when it is below
\* 70 and L - GLYCOL_TARGET_OFFSET otherwise, L the minimum target over the
\* controlled fermenters only; with no fermenter controlled it is unset.
C22_DynamicBathTarget ==
    (call.op = "glycol_setpoint" /\ call.args[1] = "pid" /\ call.args[2]) =>
        IF Controlled = {} THEN target_glycol = None
        ELSE LET X == IF \A i \in Fermenters : Demand(i).n = 0
                      THEN LowestTarget + 50
                      ELSE IF \A i \in Fermenters : RatLess(Demand(i), Rat(30, 1))
                      THEN LowestTarget - 20
                      ELSE IF \A i \in Fermenters : RatLess(Demand(i), Rat(70, 1))
                      THEN LowestTarget - 40
                      ELSE LowestTarget - GLYCOL_TARGET_OFFSET
             IN  target_glycol = Max2(MIN_GLYCOL_TEMP, X)

\* C22 witness: fermenter 0, skipped, stores the lowest target of all, and
\* the bath target is 4 degrees below the target of fermenter 1, whose
\* cooling duty is exactly 30 percent
C22_Witness ==
    /\ call.op = "glycol_setpoint"
    /\ call.args[1] = "pid"
    /\ call.args[2]
    /\ call.args[3][0].skipped
    /\ call.args[3][0].target < call.args[3][1].target
    /\ ~call.args[3][1].skipped
    /\ call.args[3][1].cooling_duty = Rat(30, 1)
    /\ target_glycol = call.args[3][1].target - 40

\* a fermenter_index field that is not an integer naming a fermenter
BadIndexField(x) == x.kind # "int" \/ x.v \notin Fermenters

\* a target_temp field that is not a number
BadTargetField(x) == x.kind \notin {"int", "float"}

\* the request got an error status and wrote nothing
RejectedUnmodified ==
    /\ call'.out[1] >= 400
    /\ UNCHANGED << request_frame, fermenter_profile_offsets, target_fermenters,
                    fermenter_active_status, solenoid_states, heater_states >>

\* C23: a set_target or set_fermenter_status request with a bad fermenter
\* index, or with a missing or wrong-typed field, gets an error status and
\* leaves every fermenter field, glycol field and the control mode as they
\* were.
C23_MalformedRequestRejected ==
    [][ /\ \A data \in SetTargetBodies :
               (/\ set_target_request(data)
                /\ (BadIndexField(data.fermenter_index)
                       \/ BadTargetField(data.target_temp)))
                   => RejectedUnmodified
        /\ \A data \in SetStatusBodies :
               (/\ set_fermenter_status_request(data)
                /\ (BadIndexField(data.fermenter_index)
                       \/ data.is_active.kind # "bool"))
                   => RejectedUnmodified ]_vars

\* the control thread has made the first decision of its iteration (the pass
\* over fermenter 0 read control_mode at line 384 or 419) and has yet to
\* apply the glycol setpoint rule (which reads it at line 473)
BetweenModeReads == (pc = "vessel" /\ idx > 0) \/ pc \in {"pump", "glycol"}

\* C24: every decision of one iteration of control_loop is taken under the
\* same control mode: no change of control_mode takes effect between the pass
\* over the first fermenter and the glycol setpoint rule of the same
\* iteration.
C24_SingleModePerTick ==
    [][ BetweenModeReads => control_mode' = control_mode ]_vars

\* The fields of fermenter i are as they were before the assignment in
\* progress wrote any of them, or as they are once it has written them all:
\* nothing is written yet, or only a profile id equal to the one it replaces,
\* or what remains to be written already has the value to be written.
ObservedWhole(i) ==
    \/ request.line = 828
    \/ request.line = 829 /\ fermenter_profiles[i] = request.found[1]
    \/ /\ request.line > 829
       /\ request.line <= 830 => fermenter_current_step[i] = 0
       /\ request.line <= 831 => fermenter_profile_offsets[i] = 0
       /\ request.line <= 832 => fermenter_active_status[i]

\* C25: a pass of control_loop over a fermenter under control reads the
\* fermenter's profile id, start time, recorded step, offset and active flag
\* either all as they were before a profile assignment or all as they are
\* after it, never a new profile id with the start time of the assignment
\* before.
C25_AssignmentObservedWhole ==
    [][ (/\ VesselStep
         /\ request.op = "assign_profile"
         /\ request.fermenter_index = idx
         /\ fermenter_active_status[idx]
         /\ current_fermenters[idx] # None)
            => ObservedWhole(idx) ]_vars

\* the raw word has the fault bit set, or the resistance
\* (raw >> 1) / 32768 * ref_resistor is below 10 ohm or above 400 ohm
NotConnected(self, raw) ==
    \/ raw % 2 = 1
    \/ (raw \div 2) * self.ref_resistor < 10 * RtdFullScale
    \/ (raw \div 2) * self.ref_resistor > 400 * RtdFullScale

\* C26: a get_reading whose raw word has the fault bit set, or whose
\* resistance is below 10 ohm or above 400 ohm, returns (None, "NOT
\* CONNECTED") and leaves the instance's buffer as it was; any other reading
\* returns "OK" with a temperature.  0, 5 and 450 ohm are not connected and
\* 150 ohm is OK.
C26_FaultDetection ==
    [][ call'.op = "get_reading" =>
            LET k == call'.args[1]
                raw == call'.args[2]
                self == pt100_sensors[k]
            IN  /\ IF NotConnected(self, raw)
                   THEN /\ call'.out = << NoTemperature, "NOT CONNECTED" >>
                        /\ pt100_sensors'[k].history = self.history
                   ELSE /\ call'.out[2] = "OK"
                        /\ call'.out[1].n # None
                /\ raw \in { 2 * RawRtdFor(r, self.ref_resistor) :
                                 r \in { 0, 500, 45000 } }
                       => call'.out[2] = "NOT CONNECTED"
                /\ raw = 2 * RawRtdFor(15000, self.ref_resistor)
                       => call'.out[2] = "OK" ]_vars

\* a reading with the fault bit set has returned (None, "NOT CONNECTED") on
\* an instance whose buffer is full, after a reading that returned OK
C26_Witness ==
    /\ call.op = "get_reading"
    /\ call.args[2] % 2 = 1
    /\ call.out = << NoTemperature, "NOT CONNECTED" >>
    /\ Len(pt100_sensors[call.args[1]].history) = HistoryMaxLen
    /\ call.prev_op = "get_reading"
    /\ call.prev_out[2] = "OK"

\* the samples of instance k up to and including the one of the last call
SamplesThrough(k) ==
    Append(call.args[3][k], RtdTemperature(pt100_sensors[k], call.args[2] \div 2))

\* C27: a get_reading that returns OK returns the arithmetic mean of the
\* latest min(n, 10) samples that its instance has converted, n counting the
\* one just converted; readings that returned NOT CONNECTED and readings of
\* other instances contribute nothing.
C27_MovingAverage ==
    (call.op = "get_reading" /\ call.out[2] = "OK") =>
        LET samples == SamplesThrough(call.args[1])
            n == Min2(Len(samples), 10)
            latest == SubSeq(samples, Len(samples) - n + 1, Len(samples))
        IN  call.out[1] = Rat(SeqSum(latest), n)

\* the eleventh sample of the first instance has been converted, straight
\* after a reading of it that was not connected, and the sample that left the
\* buffer differs from the one that entered
C27_Witness ==
    /\ call.op = "get_reading"
    /\ call.out[2] = "OK"
    /\ call.args[1] = 0
    /\ Len(SamplesThrough(0)) = 11
    /\ SamplesThrough(0)[1] # SamplesThrough(0)[11]
    /\ call.prev_op = "get_reading"
    /\ call.prev_args[1] = 0
    /\ call.prev_out[2] = "NOT CONNECTED"

\* PT100 resistances of IEC 60751: thousandths of a degree, hundredths of an
\* ohm
PT100Table ==
    { [millidegree |-> 0 - 100000, centiohm |-> 6026],
      [millidegree |-> 0 - 50000, centiohm |-> 8031],
      [millidegree |-> 0, centiohm |-> 10000],
      [millidegree |-> 50000, centiohm |-> 11940],
      [millidegree |-> 100000, centiohm |-> 13851],
      [millidegree |-> 100000, centiohm |-> 13850],
      [millidegree |-> 200000, centiohm |-> 17586],
      [millidegree |-> 850000, centiohm |-> 39048] }

\* the last call read the resistance of the entry on an instance with the
\* default resistances and an empty buffer
ReadOfEntry(entry) ==
    /\ call.op = "get_reading"
    /\ pt100_sensors[call.args[1]].rtd_nominal = 100
    /\ pt100_sensors[call.args[1]].ref_resistor = 430
    /\ call.args[3][call.args[1]] = << >>
    /\ call.args[2] = 2 * RawRtdFor(entry.centiohm, 430)

\* the call returned OK and the entry's temperature within 0.1 degree
WithinTenth(entry) ==
    /\ call.out[2] = "OK"
    /\ Abs(call.out[1].n - entry.millidegree * call.out[1].d) <= 100 * call.out[1].d

\* C28 as stated: with the default resistances and an empty buffer,
\* get_reading returns every temperature of the PT100 table within 0.1 degree
\* of the table.
C28_TableReproduced ==
    \A entry \in PT100Table : ReadOfEntry(entry) => WithinTenth(entry)

\* C28: with the default resistances and an empty buffer, get_reading returns
\* the temperatures of the PT100 table from -50 to 850 degrees within 0.1
\* degree of the table (100 ohm gives 0.00 and 138.5 ohm 100.00 to 0.1
\* degree).
C28_TableReproducedFromMinus50 ==
    \A entry \in PT100Table :
        (ReadOfEntry(entry) /\ entry.millidegree >= 0 - 50000) => WithinTenth(entry)

\* 138.5 ohm has been read on a new default instance
C28_Witness ==
    /\ ReadOfEntry([millidegree |-> 100000, centiohm |-> 13850])
    /\ WithinTenth([millidegree |-> 100000, centiohm |-> 13850])

\* No request has been served and the mode is pid: it has been pid since the
\* process started, so chiller_on was last switched on by chiller_controller,
\* at or after its last_state_change.
PidSinceStart == api_count = 0 /\ control_mode = "pid"

\* C29: while the control mode remains pid, the chiller block of
\* control_loop does not switch chiller_on off less than CHILLER_MIN_ON_TIME
\* seconds after chiller_on was switched on, whatever the glycol reading
\* (None included).
C29_ChillerOutputDwell ==
    [][ (ChillerStep /\ PidSinceStart /\ chiller_on /\ ~chiller_on')
            => clock - chiller_controller.last_state_change >= CHILLER_MIN_ON_TIME ]_vars

\* can_cool of fermenter i on the readings of the latest iteration (no
\* handler writes current_temperatures)
CanCool(i) ==
    /\ current_glycol # None
    /\ current_fermenters[i] # None
    /\ current_glycol < current_fermenters[i]

\* C30: when an iteration of control_loop has ended, in either mode, the
\* cooling valve of a fermenter is open only if can_cool was true for it in
\* that iteration: the glycol reading was present and lower than the
\* fermenter's.
C30_ValveOnlyIfCanCool ==
    AtTickBoundary => \A i \in Fermenters : solenoid_states[i] => CanCool(i)

PassDelays(i) ==
    IF ~fermenter_active_status[i] THEN {}
    ELSE IF pc = "vessel" /\ idx <= i /\ current_fermenters[i] # None THEN {0}
    ELSE IF pc = "sleep" THEN TickDelays
    ELSE {}

\* C32: after a set_target of T on a fermenter with a running profile, the
\* next pass of control_loop over the fermenter resolves the target T,
\* whenever calculate_current_step returns at that pass the step index and
\* the profile target that it returned at the time of the request.
C32_SetTargetKept ==
    [][ \A i \in Fermenters, T \in TargetInputs :
            (set_target(i, T) /\ ProfileRunning(i) /\ Resolved(i)[2] # None) =>
                \A d \in PassDelays(i) :
                    LET steps == get_profile_by_id(fermenter_profiles[i])
                        start_time == fermenter_profile_start_times[i]
                        later == calculate_current_step(steps, start_time, clock + d)
                    IN  (later[1] = Resolved(i)[1] /\ later[2] = Resolved(i)[2])
                            => ResolveTarget(i, clock + d)'.target = T ]_vars

\* C33: a successful skip_profile_step never moves a profile backwards: the
\* step index that calculate_current_step returns straight after the skip is
\* greater than or equal to the one it returned straight before.
C33_SkipNeverBackwards ==
    [][ \A i \in Fermenters :
            skip_profile_step(i) => Resolved(i)[1]' >= Resolved(i)[1] ]_vars

\* the step is the pass of control_loop over fermenter i, active and with a
\* reading, in the given mode
ControlledPass(i, mode) ==
    /\ VesselStep
    /\ idx = i
    /\ fermenter_active_status[i]
    /\ current_fermenters[i] # None
    /\ control_mode = mode

\* C34: in the pass of a bangbang iteration over an active fermenter, with
\* target the target that the pass resolves: the valve goes from closed to
\* open only if current > target + TEMP_HYSTERESIS and can_cool, and is closed
\* whenever current < target; the heater goes from off to on only if
\* current < target - TEMP_HYSTERESIS, and is off whenever current > target;
\* the valve keeps its state when neither of its two conditions holds (in the
\* band, or too warm without can_cool), and so does the heater.
C34_BangBangRule ==
    [][ \A i \in Fermenters :
            ControlledPass(i, "bangbang") =>
                LET current == current_fermenters[i]
                    target == target_fermenters'[i]
                    opens == current > target + TEMP_HYSTERESIS /\ CanCool(i)
                    heats == current < target - TEMP_HYSTERESIS
                IN  /\ (~solenoid_states[i] /\ solenoid_states'[i]) => opens
                    /\ opens => solenoid_states'[i]
                    /\ current < target => ~solenoid_states'[i]
                    /\ (~heater_states[i] /\ heater_states'[i]) => heats
                    /\ heats => heater_states'[i]
                    /\ current > target => ~heater_states'[i]
                    /\ (~opens /\ current >= target)
                           => solenoid_states'[i] = solenoid_states[i]
                    /\ (~heats /\ current <= target)
                           => heater_states'[i] = heater_states[i] ]_vars

\* the second bangbang iteration has ended with the valve of fermenter 1
\* still open from the first, the fermenter above its target and the glycol
\* reading missing
C34_Witness ==
    /\ AtTickBoundary
    /\ tick_count = 2
    /\ api_count = 0
    /\ control_mode = "bangbang"
    /\ fermenter_active_status[1]
    /\ current_fermenters[1] > target_fermenters[1] + TEMP_HYSTERESIS
    /\ current_glycol = None
    /\ solenoid_states[1]

\* C35: in the pass of a pid iteration over an active fermenter, with the
\* duties that the pass stores: if cooling_duty > 0 and can_cool the valve is
\* what the fermenter's duty cycle manager decides for cooling_duty and the
\* heater is off; else if heating_duty > 0 the heater is what it decides for
\* heating_duty and the valve is closed; otherwise both are off.  Neither
\* output depends on the state it had before the pass.
C35_PidRule ==
    [][ \A i \in Fermenters :
            ControlledPass(i, "pid") =>
                LET cooling_duty == fermenter_cooling_duty'[i]
                    heating_duty == fermenter_heating_duty'[i]
                    decision(duty) == should_be_on(duty_cycle_managers[i], duty, clock)
                IN  IF RatLess(RatZero, cooling_duty) /\ CanCool(i)
                    THEN /\ solenoid_states'[i] = decision(cooling_duty)
                         /\ ~heater_states'[i]
                    ELSE IF RatLess(RatZero, heating_duty)
                    THEN /\ heater_states'[i] = decision(heating_duty)
                         /\ ~solenoid_states'[i]
                    ELSE /\ ~heater_states'[i]
                         /\ ~solenoid_states'[i] ]_vars

\* the second pid iteration has ended with fermenter 0 heated and with
\* fermenter 1 demanding cooling while the glycol reading is missing, both
\* its outputs off
C35_Witness ==
    /\ AtTickBoundary
    /\ tick_count = 2
    /\ api_count = 0
    /\ control_mode = "pid"
    /\ current_glycol = None
    /\ fermenter_active_status[0]
    /\ fermenter_active_status[1]
    /\ RatLess(RatZero, fermenter_heating_duty[0])
    /\ heater_states[0]
    /\ RatLess(RatZero, fermenter_cooling_duty[1])
    /\ ~solenoid_states[1]
    /\ ~heater_states[1]

\* C36: at the end of every iteration of control_loop pump_on is the
\* disjunction of the valves as the iteration set them, a fermenter that is
\* inactive or without a reading counting as closed: the pass over such a
\* fermenter closes its valve, the pump control sets pump_on to
\* any(solenoid_states), and the rest of the iteration leaves pump_on alone.
C36_PumpIsAnyValve ==
    [][ /\ \A i \in Fermenters :
               (/\ VesselStep
                /\ idx = i
                /\ (~fermenter_active_status[i] \/ current_fermenters[i] = None))
                   => ~solenoid_states'[i]
        /\ PumpStep => (pump_on' <=> \E i \in Fermenters : solenoid_states'[i])
        /\ pc \in {"glycol", "chiller"} => pump_on' = pump_on ]_vars

\* the second iteration has ended with the pump on for the open valve of
\* fermenter 1 while fermenter 0, its read failed, has its valve closed
C36_Witness ==
    /\ AtTickBoundary
    /\ tick_count = 2
    /\ api_count = 0
    /\ current_fermenters[0] = None
    /\ ~solenoid_states[0]
    /\ solenoid_states[1]
    /\ pump_on

\* C37: an iteration of control_loop whose bath reading is None, or whose
\* bath target is None, ends with chiller_on false in either control mode
\* and whatever the state of the compressor guard; and the bath target is
\* None after the setpoint block of an iteration that collected no target.
C37_ChillerOffWithoutInput ==
    [][ /\ (GlycolStep /\ Len(active_targets) = 0) => target_glycol' = None
        /\ (ChillerStep /\ (current_glycol = None \/ target_glycol = None))
               => ~chiller_on' ]_vars

\* the second iteration has ended in pid mode without a bath reading: the
\* compressor is off although the guard, switched on by the first
\* iteration, still records it as running
C37_Witness ==
    /\ AtTickBoundary
    /\ tick_count = 2
    /\ control_mode = "pid"
    /\ current_glycol = None
    /\ target_glycol # None
    /\ chiller_controller.is_on
    /\ ~chiller_on

\* C38: what control_loop does while control_mode is "bangbang" leaves
\* unchanged every PID controller (integral, last_error, last_time),
\* pid_outputs, fermenter_heating_duty and fermenter_cooling_duty, every
\* duty cycle manager (cycle_reference_time) and the compressor guard
\* (is_on, last_state_change).
C38_BangBangLeavesPidState ==
    [][ (ControlStep /\ control_mode = "bangbang") =>
            /\ pid_controllers' = pid_controllers
            /\ pid_outputs' = pid_outputs
            /\ fermenter_heating_duty' = fermenter_heating_duty
            /\ fermenter_cooling_duty' = fermenter_cooling_duty
            /\ duty_cycle_managers' = duty_cycle_managers
            /\ chiller_controller' = chiller_controller ]_vars

\* the second iteration has ended in bangbang mode, the mode of the process
\* since an iteration in pid mode: it skipped fermenter 0, whose read failed,
\* and switched the compressor on, and the PID controller of fermenter 0
\* keeps the integral and the guard the off state that the pid iteration
\* left
C38_Witness ==
    /\ AtTickBoundary
    /\ tick_count = 2
    /\ control_mode = "bangbang"
    /\ current_fermenters[0] = None
    /\ pid_controllers[0].last_time # None
    /\ fermenter_active_status[1]
    /\ current_fermenters[1] # None
    /\ chiller_on
    /\ ~chiller_controller.is_on

\* C39: once POST /api/config has succeeded, every iteration of control_loop
\* that starts afterwards runs with the gains Kp, Ki, Kd of each
\* pid_controllers[i] and the cycle length of each duty_cycle_managers[i]
\* equal to the entries of PID_PARAMS.
C39_ControllersFollowConfig ==
    [][ (pc = "sleep" /\ pc' = "vessel") =>
            \A i \in Fermenters :
                /\ pid_controllers'[i].Kp = PID_PARAMS'.Kp
                /\ pid_controllers'[i].Ki = PID_PARAMS'.Ki
                /\ pid_controllers'[i].Kd = PID_PARAMS'.Kd
                /\ duty_cycle_managers'[i].cycle_seconds
                       = PID_PARAMS'.duty_cycle_seconds ]_vars

\* C40: a ChillerController as its constructor leaves it (is_on false,
\* last_state_change 0) applies no off-dwell to its first transition: a call
\* of should_turn_on with current_temp > target_temp + hysteresis switches
\* it on and returns True, whatever min_off_time it was built with and
\* however soon after the start of the process the call comes.
C40_FreshGuardNoOffDwell ==
    [][ (/\ call'.seq # call.seq
         /\ call'.op = "should_turn_on"
         /\ chiller_controller = ChillerController(chiller_controller.min_on_time,
                                                   chiller_controller.min_off_time)
         /\ call'.args[1] > call'.args[2] + call'.args[3])
            => /\ chiller_controller'.is_on
               /\ chiller_controller'.last_state_change = clock'
               /\ call'.out[1] ]_vars

\* a guard built with a min_off_time of 900 s as the process started has been
\* switched on by the call that followed its construction, no second later
C40_Witness ==
    /\ call.op = "should_turn_on"
    /\ call.prev_op = "ChillerController"
    /\ call.now = BootTime
    /\ chiller_controller.min_off_time = 900
    /\ chiller_controller.is_on
    /\ chiller_controller.last_state_change = BootTime

====
